---- MODULE Spec2Model ----
(***************************************************************************)
(* Storage layer of buyruk-cli (package storage): the per-project advisory *)
(* lock (.buyruk.lock), the transaction marker (.buyruk_pending), the      *)
(* atomic file writer and the composite record operations built on them.   *)
(*                                                                         *)
(* Each process is one invocation of the tool.  Processes share nothing    *)
(* but the files of the project directories.  Every system call that       *)
(* touches a shared file is one step.                                       *)
(*                                                                         *)
(* Fault model: a write (os.WriteFile, f.Write), a rename, a marshal and   *)
(* the mutate callback may fail; a process may crash at any step of an     *)
(* operation.  os.Remove of a file and os.MkdirAll do not fail.            *)
(* Time: only time.Sleep lets time pass, and a sleep lasts exactly the     *)
(* requested interval (the shortest it may last).                          *)
(***************************************************************************)
EXTENDS Integers, Sequences, FiniteSets, TLC

\* ---------------------------------------------------------------- bounds
MaxVal == 2
PartialLen == 0
\* The longest project key or record identifier handed to the path resolver.
MaxIdLen == 4
\* The number of issue IDs the project index is exercised with.
MaxIssues == 2
\* The longest record identifier of a command that writes to the path resolved.
MaxRecordLen == 2

\* ------------------------------------------------------ program constants
\* timeout := 5 * time.Second, in milliseconds
LockTimeout == 5000
\* checkInterval := 100 * time.Millisecond
CheckInterval == 100

\* Two invocations of the tool run concurrently.
Procs == {1, 2}
Projects == {"PA", "PB"}
Vals == 0..MaxVal

\* The record file of a project the operations are applied to.
RecordPath == "project.json"

VARIABLES
    active,      \* the project keys the processes of this run work on
    dir,         \* dir[k]: the project directory of k exists
    lockFile,    \* lockFile[k]: the file <projectDir>/.buyruk.lock
    pending,     \* pending[k]: the file <projectDir>/.buyruk_pending
    pendingTmp,  \* pendingTmp[k]: the file <projectDir>/.buyruk_pending.tmp
    files,       \* files[k][name]: the record file and its .tmp sibling
    pc,          \* pc[p]: the position of process p in its operation
    op,          \* op[p]: the operation p runs and its arguments
    elapsed,     \* elapsed[p]: ms since p's AcquireLock computed its deadline
    err,         \* err[p]: the error the running operation is going to return
    rd,          \* rd[p]: the value UpdateJSONAtomic read and passes to mutate
    pre,         \* pre[p]: record file as p found it under the lock (history)
    crashAt,     \* crashAt[p]: the position at which p crashed (history)
    expect,      \* expect[k]: value the successful writes add up to (history)
    createOk,    \* createOk[k]: number of successful creates (history)
    ret          \* the return of an operation, if the last step was one (history)

vars == <<active, dir, lockFile, pending, pendingTmp, files, pc, op, elapsed,
          err, rd, pre, crashAt, expect, createOk, ret>>

\* ------------------------------------------------------------ file values
\* A file is absent, or exists and holds a sequence of chunks of bytes.
Absent == [exists |-> FALSE, bytes |-> <<>>]
File(b) == [exists |-> TRUE, bytes |-> b]

\* tmpPath := path + ".tmp"
TmpPathSame(path) == path
TmpPath(path) == path \o ".tmp"

FileNames == {RecordPath, TmpPath(RecordPath)}

\* json.MarshalIndent of a record holding the counter v.
Marshal(v) == <<"{", ToString(v), "}">>

\* json.Unmarshal succeeds on b.
IsJSON(b) == /\ Len(b) = 3
             /\ b[1] = "{"
             /\ b[3] = "}"
             /\ \E v \in Vals : ToString(v) = b[2]

\* The value json.Unmarshal decodes from b.
Unmarshal(b) == CHOOSE v \in Vals : ToString(v) = b[2]

\* json.MarshalIndent of the TransactionLog (the timestamp is left out).
MarshalTx(t) == <<"{", t.operation, t.file, "}">>

\* What a failed write leaves in the file it was writing b to: a strict
\* prefix of b of at most PartialLen chunks.
Prefixes(b) == {SubSeq(b, 1, n) : n \in 0..PartialLen}

\* The operation name a composite operation records in the marker.
OperationName(kind) ==
    CASE kind = "write" -> "write_json"
      [] kind = "create" -> "write_json_create"
      [] OTHER -> "update_json"

\* ----------------------------------------------------------------- init
NoOp == [kind |-> "none", proj |-> "PA", val |-> 0]

\* No operation returned in the last step.
NoRet == [proc |-> 0, kind |-> "none", proj |-> "PA", res |-> "none",
          val |-> 0, pre |-> Absent, during |-> FALSE, waited |-> 0,
          data |-> <<>>, arg |-> <<>>]

InitFor(projs) ==
    /\ active = projs
    /\ dir \in [Projects -> BOOLEAN]
    /\ \A k \in Projects \ projs : dir[k] = FALSE
    /\ lockFile = [k \in Projects |-> Absent]
    /\ pending = [k \in Projects |-> Absent]
    /\ pendingTmp = [k \in Projects |-> Absent]
    /\ files = [k \in Projects |-> [n \in FileNames |-> Absent]]
    /\ pc = [p \in Procs |-> "idle"]
    /\ op = [p \in Procs |-> NoOp]
    /\ elapsed = [p \in Procs |-> 0]
    /\ err = [p \in Procs |-> "ok"]
    /\ rd = [p \in Procs |-> 0]
    /\ pre = [p \in Procs |-> Absent]
    /\ crashAt = [p \in Procs |-> "none"]
    /\ expect = [k \in Projects |-> 0]
    /\ createOk = [k \in Projects |-> 0]
    /\ ret = NoRet

Init == InitFor({"PA"})

\* ---------------------------------------------------------------- helpers
Proj(p) == op[p].proj

Goto(p, l) == pc' = [pc EXCEPT ![p] = l]

\* The positions at which a process is between the successful return of
\* AcquireLock and the call of the release function.
HeldPcs == {"begin", "beginwrite", "beginrename", "check", "read", "mutate",
            "marshal", "wopen", "wdata", "rename", "commit", "rollback",
            "release"}

\* The positions inside WriteAtomic before the rename has happened.
BeforeRenamePcs == {"wopen", "wdata", "rename"}

\* The position of p, or the one at which it crashed.
At(p) == IF pc[p] = "crashed" THEN crashAt[p] ELSE pc[p]

Holding(p, k) == Proj(p) = k /\ At(p) \in HeldPcs

\* os.OpenFile(lockPath, O_WRONLY|O_CREATE|O_EXCL) creates the lock file:
\* the project directory exists and the file does not.
OpenNoExcl(k) == dir[k]
OpenExclOneLock(k) == dir[k] /\ \A j \in Projects : ~lockFile[j].exists
OpenExclSucceeds(k) == dir[k] /\ ~lockFile[k].exists

\* f.Write(pid) on the file AcquireLock has just created and holds open: a
\* file that was unlinked in between is not brought back by the write.
WritePid(k, p) ==
    IF lockFile[k] = File(<<>>)
      THEN [lockFile EXCEPT ![k] = File(<<ToString(p)>>)]
      ELSE lockFile

\* os.IsExist(err) of the failed OpenFile.
OpenIsExistAlways(k) == dir[k]
OpenIsExist(k) == dir[k] /\ ~OpenExclSucceeds(k)

\* time.Now().After(deadline), e ms after the deadline was computed.
DeadlineNever(e) == FALSE
DeadlinePassed(e) == e > LockTimeout

\* os.Stat(lockPath) of CheckLock finds the file.
CheckLockInverted(k) == ~lockFile[k].exists
CheckLock(k) == lockFile[k].exists

\* The cleanup function AcquireLock returns: os.Remove(lockPath).
ReleaseKeeps(k) == lockFile
ReleaseLock(k) == [lockFile EXCEPT ![k] = Absent]

\* CommitTransaction (and RollbackTransaction, which calls it):
\* os.Remove(transactionPath); an absent marker is not an error.
CommitKeeps(k) == pending
CommitTransaction(k) == [pending EXCEPT ![k] = Absent]

\* os.Rename(from, to) in the directory f.
Rename(f, from, to) ==
    IF from = to THEN f ELSE [f EXCEPT ![to] = f[from], ![from] = Absent]

\* The transaction log entry the composite operation kind writes.
TxOf(kind) == [operation |-> OperationName(kind), file |-> RecordPath]

\* The composite operation of p returns e to its caller; its locals are gone.
Return(p, e) ==
    /\ ret' = [proc |-> p, kind |-> op[p].kind, proj |-> Proj(p), res |-> e,
               val |-> op[p].val, pre |-> pre[p], during |-> FALSE,
               waited |-> IF e = "timeout" THEN elapsed[p] ELSE 0,
               data |-> <<>>, arg |-> <<>>]
    /\ pc' = [pc EXCEPT ![p] = "idle"]
    /\ op' = [op EXCEPT ![p] = NoOp]
    /\ elapsed' = [elapsed EXCEPT ![p] = 0]
    /\ err' = [err EXCEPT ![p] = "ok"]
    /\ rd' = [rd EXCEPT ![p] = 0]
    /\ pre' = [pre EXCEPT ![p] = Absent]

\* A step that is not the return of an operation.
UnchangedHistory == UNCHANGED <<crashAt, expect, createOk>> /\ ret' = NoRet

\* ------------------------------------------------------------ operations
\* A process starts a composite operation (WriteJSONAtomic,
\* WriteJSONAtomicCreate or UpdateJSONAtomic) on the record of project k: it
\* enters AcquireLock, which computes the deadline.  The three operations run
\* the same code up to BeginTransaction, where the model draws which of them
\* it is.
Start(p) ==
    /\ pc[p] = "idle"
    /\ \E k \in active : op' = [op EXCEPT ![p] = [NoOp EXCEPT !.proj = k]]
    /\ Goto(p, "acquire")
    /\ UNCHANGED <<active, dir, lockFile, pending, pendingTmp, files, elapsed,
                   err, rd, pre>>
    /\ UnchangedHistory

\* AcquireLock: os.OpenFile with O_CREATE|O_EXCL created the lock file; the
\* deadline is not looked at again.
LockCreate(p) ==
    /\ pc[p] = "acquire"
    /\ OpenExclSucceeds(Proj(p))
    /\ lockFile' = [lockFile EXCEPT ![Proj(p)] = File(<<>>)]
    /\ Goto(p, "lockwrite")
    /\ elapsed' = [elapsed EXCEPT ![p] = 0]
    /\ UNCHANGED <<active, dir, pending, pendingTmp, files, op, err, rd, pre>>
    /\ UnchangedHistory

\* AcquireLock: OpenFile failed and not because the file exists (the project
\* directory is missing).
LockCreateError(p) ==
    /\ pc[p] = "acquire"
    /\ ~dir[Proj(p)]
    /\ Return(p, "lockerr")
    /\ UNCHANGED <<active, dir, lockFile, pending, pendingTmp, files, crashAt,
                   expect, createOk>>

\* AcquireLock: the file exists and the deadline has not passed: sleep
\* checkInterval and retry.
LockRetry(p) ==
    /\ pc[p] = "acquire"
    /\ OpenIsExist(Proj(p))
    /\ ~DeadlinePassed(elapsed[p])
    /\ elapsed' = [elapsed EXCEPT ![p] = @ + CheckInterval]
    /\ UNCHANGED <<active, dir, lockFile, pending, pendingTmp, files, pc, op,
                   err, rd, pre>>
    /\ UnchangedHistory

\* AcquireLock that unlinks the lock file it could not take when it gives up.
LockTimedOutRemoves(p) ==
    /\ pc[p] = "acquire"
    /\ OpenIsExist(Proj(p))
    /\ DeadlinePassed(elapsed[p])
    /\ Return(p, "timeout")
    /\ lockFile' = [lockFile EXCEPT ![Proj(p)] = Absent]
    /\ UNCHANGED <<active, dir, pending, pendingTmp, files, crashAt,
                   expect, createOk>>

\* AcquireLock: the file exists and the deadline has passed.
LockTimedOut(p) ==
    /\ pc[p] = "acquire"
    /\ OpenIsExist(Proj(p))
    /\ DeadlinePassed(elapsed[p])
    /\ Return(p, "timeout")
    /\ UNCHANGED <<active, dir, lockFile, pending, pendingTmp, files, crashAt,
                   expect, createOk>>

\* AcquireLock: f.Write(pid) and f.Close; on an error of either the lock
\* file is removed and the error returned, else the cleanup is returned.
LockWritePid(p) ==
    /\ pc[p] = "lockwrite"
    /\ \/ /\ lockFile' = WritePid(Proj(p), p)
          /\ Goto(p, "begin")
          /\ UNCHANGED <<op, elapsed, err, rd, pre>>
          /\ ret' = NoRet
       \/ /\ lockFile' = [lockFile EXCEPT ![Proj(p)] = Absent]
          /\ Return(p, "lockerr")
    /\ UNCHANGED <<active, dir, pending, pendingTmp, files, crashAt, expect,
                   createOk>>

\* BeginTransaction(projectKey, operation, metadata): os.MkdirAll(projectDir),
\* then os.WriteFile(tmpPath) opens (creates or truncates) the temporary
\* marker file.  When BeginTransaction fails the operation returns before the
\* rollback is deferred; the deferred cleanup of the lock runs.
BeginOpen(p) ==
    /\ pc[p] = "begin"
    /\ dir' = [dir EXCEPT ![Proj(p)] = TRUE]
    /\ \/ /\ \E kind \in {"write", "create", "update"} :
                op' = [op EXCEPT ![p].kind = kind]
          /\ pendingTmp' = [pendingTmp EXCEPT ![Proj(p)] = File(<<>>)]
          /\ Goto(p, "beginwrite")
          /\ UNCHANGED err
       \/ /\ err' = [err EXCEPT ![p] = "beginerr"]
          /\ Goto(p, "release")
          /\ UNCHANGED <<pendingTmp, op>>
    /\ UNCHANGED <<active, lockFile, pending, files, elapsed, rd, pre>>
    /\ UnchangedHistory

\* A BeginTransaction that writes the entry straight to the marker path.
BeginWriteDirect(p) ==
    /\ pc[p] = "beginwrite"
    /\ \/ /\ pending' = [pending EXCEPT ![Proj(p)] =
                            File(MarshalTx(TxOf(op[p].kind)))]
          /\ Goto(p, "beginrename")
          /\ UNCHANGED err
       \/ /\ \E b \in Prefixes(MarshalTx(TxOf(op[p].kind))) :
                pending' = [pending EXCEPT ![Proj(p)] = File(b)]
          /\ err' = [err EXCEPT ![p] = "beginerr"]
          /\ Goto(p, "release")
    /\ UNCHANGED <<active, dir, lockFile, pendingTmp, files, op, elapsed, rd,
                   pre>>
    /\ UnchangedHistory

\* BeginTransaction: os.WriteFile writes the marshalled entry, or fails
\* having written a part of it.
BeginWrite(p) ==
    /\ pc[p] = "beginwrite"
    /\ \/ /\ pendingTmp' = [pendingTmp EXCEPT ![Proj(p)] =
                               File(MarshalTx(TxOf(op[p].kind)))]
          /\ Goto(p, "beginrename")
          /\ UNCHANGED err
       \/ /\ \E b \in Prefixes(MarshalTx(TxOf(op[p].kind))) :
                pendingTmp' = [pendingTmp EXCEPT ![Proj(p)] = File(b)]
          /\ err' = [err EXCEPT ![p] = "beginerr"]
          /\ Goto(p, "release")
    /\ UNCHANGED <<active, dir, lockFile, pending, files, op, elapsed, rd, pre>>
    /\ UnchangedHistory

\* The step that follows a successful BeginTransaction.
AfterBegin(kind) ==
    CASE kind = "create" -> "check"
      [] kind = "update" -> "read"
      [] OTHER -> "marshal"

\* BeginTransaction: os.Rename(tmpPath, transactionPath); on failure the
\* error is returned and the temporary file stays.
BeginRename(p) ==
    /\ pc[p] = "beginrename"
    /\ \/ /\ pending' = [pending EXCEPT ![Proj(p)] = pendingTmp[Proj(p)]]
          /\ pendingTmp' = [pendingTmp EXCEPT ![Proj(p)] = Absent]
          /\ Goto(p, AfterBegin(op[p].kind))
          /\ UNCHANGED err
       \/ /\ err' = [err EXCEPT ![p] = "beginerr"]
          /\ Goto(p, "release")
          /\ UNCHANGED <<pending, pendingTmp>>
    /\ UNCHANGED <<active, dir, lockFile, files, op, elapsed, rd, pre>>
    /\ UnchangedHistory


\* The existence check of WriteJSONAtomicCreate finds the target.
TargetNeverExists(p) == FALSE
TargetExists(p) == files[Proj(p)][RecordPath].exists

\* WriteJSONAtomicCreate: the existence check, made under the lock; an
\* existing target fails the operation and nothing is written.
CreateCheck(p) ==
    /\ pc[p] = "check"
    /\ pre' = [pre EXCEPT ![p] = files[Proj(p)][RecordPath]]
    /\ IF TargetExists(p)
         THEN /\ err' = [err EXCEPT ![p] = "exists"]
              /\ Goto(p, "rollback")
         ELSE /\ Goto(p, "marshal")
              /\ UNCHANGED err
    /\ UNCHANGED <<active, dir, lockFile, pending, pendingTmp, files, op,
                   elapsed, rd>>
    /\ UnchangedHistory

\* An UpdateJSONAtomic that hands mutate the zero value whatever is stored.
UpdateReadZero(p) ==
    /\ pc[p] = "read"
    /\ pre' = [pre EXCEPT ![p] = files[Proj(p)][RecordPath]]
    /\ rd' = [rd EXCEPT ![p] = 0]
    /\ Goto(p, "mutate")
    /\ UNCHANGED <<active, dir, lockFile, pending, pendingTmp, files, op,
                   elapsed, err>>
    /\ UnchangedHistory

\* UpdateJSONAtomic: read the current content into the caller's value; an
\* absent file leaves the zero value, undecodable content is an error.
UpdateRead(p) ==
    /\ pc[p] = "read"
    /\ pre' = [pre EXCEPT ![p] = files[Proj(p)][RecordPath]]
    /\ LET f == files[Proj(p)][RecordPath] IN
         IF ~f.exists
           THEN /\ rd' = [rd EXCEPT ![p] = 0]
                /\ Goto(p, "mutate")
                /\ UNCHANGED err
           ELSE IF IsJSON(f.bytes)
             THEN /\ rd' = [rd EXCEPT ![p] = Unmarshal(f.bytes)]
                  /\ Goto(p, "mutate")
                  /\ UNCHANGED err
             ELSE /\ err' = [err EXCEPT ![p] = "decodeerr"]
                  /\ Goto(p, "rollback")
                  /\ UNCHANGED rd
    /\ UNCHANGED <<active, dir, lockFile, pending, pendingTmp, files, op,
                   elapsed>>
    /\ UnchangedHistory

\* UpdateJSONAtomic: the caller's mutate callback either returns an error,
\* which aborts the update, or increments the counter it was given.
UpdateMutate(p) ==
    /\ pc[p] = "mutate"
    /\ \/ /\ err' = [err EXCEPT ![p] = "cberr"]
          /\ Goto(p, "rollback")
          /\ UNCHANGED op
       \/ /\ rd[p] < MaxVal
          /\ op' = [op EXCEPT ![p].val = rd[p] + 1]
          /\ Goto(p, "marshal")
          /\ UNCHANGED err
    /\ rd' = [rd EXCEPT ![p] = 0]
    /\ UNCHANGED <<active, dir, lockFile, pending, pendingTmp, files, elapsed, pre>>
    /\ UnchangedHistory

\* json.MarshalIndent(v, "", "  "): fails for a value that cannot be
\* serialized.  On success the operation enters WriteAtomic.  The value a
\* write or a create was called with is drawn here, at its first use.
MarshalStep(p) ==
    /\ pc[p] = "marshal"
    /\ \/ /\ IF op[p].kind = "update"
               THEN UNCHANGED op
               ELSE \E v \in Vals : op' = [op EXCEPT ![p].val = v]
          /\ pre' = [pre EXCEPT ![p] = files[Proj(p)][RecordPath]]
          /\ Goto(p, "wopen")
          /\ UNCHANGED err
       \/ /\ op[p].kind # "update"
          /\ err' = [err EXCEPT ![p] = "marshalerr"]
          /\ Goto(p, "rollback")
          /\ UNCHANGED <<pre, op>>
    /\ UNCHANGED <<active, dir, lockFile, pending, pendingTmp, files, elapsed,
                   rd>>
    /\ UnchangedHistory

\* WriteAtomic: EnsureDir(path), then os.WriteFile(tmpPath) opens (creates or
\* truncates) the temporary file.
WriteOpen(p) ==
    /\ pc[p] = "wopen"
    /\ dir' = [dir EXCEPT ![Proj(p)] = TRUE]
    /\ \/ /\ files' = [files EXCEPT ![Proj(p)][TmpPath(RecordPath)] = File(<<>>)]
          /\ Goto(p, "wdata")
          /\ UNCHANGED err
       \/ /\ err' = [err EXCEPT ![p] = "writeerr"]
          /\ Goto(p, "rollback")
          /\ UNCHANGED files
    /\ UNCHANGED <<active, lockFile, pending, pendingTmp, op, elapsed, rd, pre>>
    /\ UnchangedHistory

\* WriteAtomic: os.WriteFile writes the data, or fails having written a part
\* of it; the error is returned and the temporary file is left as it is.
WriteData(p) ==
    /\ pc[p] = "wdata"
    /\ \/ /\ files' = [files EXCEPT ![Proj(p)][TmpPath(RecordPath)] =
                                       File(Marshal(op[p].val))]
          /\ Goto(p, "rename")
          /\ UNCHANGED err
       \/ /\ \E b \in Prefixes(Marshal(op[p].val)) :
                files' = [files EXCEPT ![Proj(p)][TmpPath(RecordPath)] = File(b)]
          /\ err' = [err EXCEPT ![p] = "writeerr"]
          /\ Goto(p, "rollback")
    /\ UNCHANGED <<active, dir, lockFile, pending, pendingTmp, op, elapsed, rd, pre>>
    /\ UnchangedHistory

\* WriteAtomic: os.Rename(tmpPath, path); on failure os.Remove(tmpPath) and
\* the error is returned.
WriteRename(p) ==
    /\ pc[p] = "rename"
    /\ \/ /\ files' = [files EXCEPT ![Proj(p)] =
                          Rename(@, TmpPath(RecordPath), RecordPath)]
          /\ Goto(p, "commit")
          /\ UNCHANGED err
       \/ /\ files' = [files EXCEPT ![Proj(p)][TmpPath(RecordPath)] = Absent]
          /\ err' = [err EXCEPT ![p] = "renameerr"]
          /\ Goto(p, "rollback")
    /\ UNCHANGED <<active, dir, lockFile, pending, pendingTmp, op, elapsed, rd, pre>>
    /\ UnchangedHistory

\* CommitTransaction(projectKey), then success = true.
Commit(p) ==
    /\ pc[p] = "commit"
    /\ pending' = CommitTransaction(Proj(p))
    /\ Goto(p, "release")
    /\ UNCHANGED <<active, dir, lockFile, pendingTmp, files, op, elapsed, err,
                   rd, pre>>
    /\ UnchangedHistory

\* The deferred function of the composite operation: success is false, so
\* RollbackTransaction(projectKey) runs.
Rollback(p) ==
    /\ pc[p] = "rollback"
    /\ pending' = CommitTransaction(Proj(p))
    /\ Goto(p, "release")
    /\ UNCHANGED <<active, dir, lockFile, pendingTmp, files, op, elapsed, err,
                   rd, pre>>
    /\ UnchangedHistory

\* The deferred cleanup() removes the lock file and the operation returns.
Release(p) ==
    /\ pc[p] = "release"
    /\ lockFile' = ReleaseLock(Proj(p))
    /\ Return(p, err[p])
    /\ expect' = [expect EXCEPT ![Proj(p)] =
                    IF err[p] # "ok" THEN @
                    ELSE IF op[p].kind = "update" THEN @ + 1 ELSE op[p].val]
    /\ createOk' = [createOk EXCEPT ![Proj(p)] =
                      IF err[p] = "ok" /\ op[p].kind = "create" THEN @ + 1 ELSE @]
    /\ UNCHANGED <<active, dir, pending, pendingTmp, files, crashAt>>

\* Some process is inside WriteAtomic on the record of k, between opening the
\* temporary file and the return of the rename.
WriterAt(k) == \E q \in Procs : Proj(q) = k /\ pc[q] \in {"wdata", "rename"}

\* A ReadJSON that returns only while the project's lock file does not exist.
ReadJSONUnlocked(p) ==
    /\ pc[p] = "idle"
    /\ \E k \in active :
         LET f == files[k][RecordPath] IN
           /\ ~lockFile[k].exists
           /\ ret' = [NoRet EXCEPT !.proc = p, !.kind = "read", !.proj = k,
                                   !.res = IF ~f.exists THEN "notfound"
                                           ELSE IF IsJSON(f.bytes) THEN "ok"
                                           ELSE "decodeerr",
                                   !.val = IF f.exists /\ IsJSON(f.bytes)
                                             THEN Unmarshal(f.bytes) ELSE 0,
                                   !.during = WriterAt(k)]
    /\ UNCHANGED <<active, dir, lockFile, pending, pendingTmp, files, pc, op,
                   elapsed, err, rd, pre, crashAt, expect, createOk>>

\* ReadJSON(path): os.ReadFile, then json.Unmarshal; no lock is taken.
ReadJSON(p) ==
    /\ pc[p] = "idle"
    /\ \E k \in active :
         LET f == files[k][RecordPath] IN
           ret' = [NoRet EXCEPT !.proc = p, !.kind = "read", !.proj = k,
                                !.res = IF ~f.exists THEN "notfound"
                                        ELSE IF IsJSON(f.bytes) THEN "ok"
                                        ELSE "decodeerr",
                                !.val = IF f.exists /\ IsJSON(f.bytes)
                                          THEN Unmarshal(f.bytes) ELSE 0,
                                !.during = WriterAt(k)]
    /\ UNCHANGED <<active, dir, lockFile, pending, pendingTmp, files, pc, op,
                   elapsed, err, rd, pre, crashAt, expect, createOk>>

\* CheckLock(projectKey) called by a process that holds nothing.
CheckLockCall(p) ==
    /\ pc[p] = "idle"
    /\ \E k \in active :
         ret' = [NoRet EXCEPT !.proc = p, !.kind = "checklock", !.proj = k,
                              !.res = IF CheckLock(k) THEN "locked"
                                      ELSE "unlocked"]
    /\ UNCHANGED <<active, dir, lockFile, pending, pendingTmp, files, pc, op,
                   elapsed, err, rd, pre, crashAt, expect, createOk>>

\* The caller creates the project directory: os.MkdirAll(projectDir, 0755).
MkdirAll(p) ==
    /\ pc[p] = "idle"
    /\ \E k \in active : dir' = [dir EXCEPT ![k] = TRUE]
    /\ UNCHANGED <<active, lockFile, pending, pendingTmp, files, pc, op,
                   elapsed, err, rd, pre>>
    /\ UnchangedHistory

\* The process dies in the middle of an operation; its files stay.
Crash(p) ==
    /\ pc[p] \notin {"idle", "crashed"}
    /\ crashAt' = [crashAt EXCEPT ![p] = pc[p]]
    /\ Goto(p, "crashed")
    /\ elapsed' = [elapsed EXCEPT ![p] = 0]
    /\ err' = [err EXCEPT ![p] = "ok"]
    /\ rd' = [rd EXCEPT ![p] = 0]
    /\ ret' = NoRet
    /\ UNCHANGED <<active, dir, lockFile, pending, pendingTmp, files, op, pre,
                   expect, createOk>>

Next ==
    \E p \in Procs :
        \/ Start(p)
        \/ LockCreate(p)
        \/ LockCreateError(p)
        \/ LockRetry(p)
        \/ LockTimedOut(p)
        \/ LockWritePid(p)
        \/ BeginOpen(p)
        \/ BeginWrite(p)
        \/ BeginRename(p)
        \/ CreateCheck(p)
        \/ UpdateRead(p)
        \/ UpdateMutate(p)
        \/ MarshalStep(p)
        \/ WriteOpen(p)
        \/ WriteData(p)
        \/ WriteRename(p)
        \/ Commit(p)
        \/ Rollback(p)
        \/ Release(p)
        \/ ReadJSON(p)
        \/ CheckLockCall(p)
        \/ MkdirAll(p)
        \/ Crash(p)

Spec == Init /\ [][Next]_vars

\* The steps of the retry loop of AcquireLock. The loop has no blocking call
\* but time.Sleep, so a process that is in it and does not crash goes on to
\* its next attempt.
AcquireStep(p) ==
    LockCreate(p) \/ LockCreateError(p) \/ LockRetry(p) \/ LockTimedOut(p)

\* Spec with the retry loops of AcquireLock making progress.
LiveSpec == Spec /\ \A p \in Procs : WF_vars(AcquireStep(p))

\* ------------------------------------------------------------ WaitForLock
\* The timeouts WaitForLock is called with, in milliseconds.
WaitTimeouts == {0, 200}

\* WaitForLock: time.Now().Before(deadline), e milliseconds after the
\* deadline was computed as now + timeout.
BeforeDeadline(e, timeout) == e < timeout

\* WaitForLock returns e; waited is the time the call has taken.
WaitReturn(p, k, timeout, waited, e) ==
    /\ ret' = [NoRet EXCEPT !.proc = p, !.kind = "wait", !.proj = k,
                            !.res = e, !.val = timeout, !.waited = waited]
    /\ pc' = [pc EXCEPT ![p] = "idle"]
    /\ op' = [op EXCEPT ![p] = NoOp]
    /\ elapsed' = [elapsed EXCEPT ![p] = 0]

\* One test of the loop of WaitForLock, e milliseconds into the call: past
\* the deadline it returns the timeout error, with no lock file it returns
\* nil, else it sleeps checkInterval.
WaitIteration(p, k, timeout, e) ==
    IF ~BeforeDeadline(e, timeout)
      THEN WaitReturn(p, k, timeout, e, "timeout")
      ELSE IF ~CheckLock(k)
        THEN WaitReturn(p, k, timeout, e, "ok")
        ELSE /\ pc' = [pc EXCEPT ![p] = "wait"]
             /\ op' = [op EXCEPT ![p] = [kind |-> "wait", proj |-> k,
                                         val |-> timeout]]
             /\ elapsed' = [elapsed EXCEPT ![p] = e + CheckInterval]
             /\ ret' = NoRet

\* WaitForLock(projectKey, timeout) is called: the deadline is computed and
\* the loop tested for the first time.
WaitCall(p) ==
    /\ pc[p] = "idle"
    /\ \E k \in active, t \in WaitTimeouts : WaitIteration(p, k, t, 0)
    /\ UNCHANGED <<active, dir, lockFile, pending, pendingTmp, files, err, rd,
                   pre, crashAt, expect, createOk>>

\* WaitForLock wakes from time.Sleep and tests the loop again.
WaitCheck(p) ==
    /\ pc[p] = "wait"
    /\ WaitIteration(p, Proj(p), op[p].val, elapsed[p])
    /\ UNCHANGED <<active, dir, lockFile, pending, pendingTmp, files, err, rd,
                   pre, crashAt, expect, createOk>>

NextWait == Next \/ \E p \in Procs : WaitCall(p) \/ WaitCheck(p)

\* The storage layer with callers of WaitForLock.
WaitSpec == Init /\ [][NextWait]_vars


\* ------------------------------------------------ CheckPendingTransaction
\* json.Unmarshal of the marker into a TransactionLog succeeds on b.
IsTxJSON(b) == Len(b) = 4 /\ b[1] = "{" /\ b[4] = "}"

\* The TransactionLog json.Unmarshal decodes from b.
UnmarshalTx(b) == [operation |-> b[2], file |-> b[3]]

\* What CheckPendingTransaction hands back of the decoded log besides
\* exists and the error: transaction.Metadata.
ReturnedLog(t) == <<t.file>>

\* CheckPendingTransaction(projectKey): os.Stat of the marker, os.ReadFile,
\* json.Unmarshal.
CheckPendingTransaction(k) ==
    IF ~pending[k].exists
      THEN [res |-> "none", data |-> <<>>]
      ELSE IF ~IsTxJSON(pending[k].bytes)
        THEN [res |-> "decodeerr", data |-> <<>>]
        ELSE [res |-> "pending",
              data |-> ReturnedLog(UnmarshalTx(pending[k].bytes))]

\* CheckPendingTransaction called by a process that runs no operation.
CheckPendingCall(p) ==
    /\ pc[p] = "idle"
    /\ \E k \in active :
         ret' = [NoRet EXCEPT !.proc = p, !.kind = "checkpending",
                              !.proj = k,
                              !.res = CheckPendingTransaction(k).res,
                              !.data = CheckPendingTransaction(k).data]
    /\ UNCHANGED <<active, dir, lockFile, pending, pendingTmp, files, pc, op,
                   elapsed, err, rd, pre, crashAt, expect, createOk>>

NextPending == Next \/ \E p \in Procs : CheckPendingCall(p)

\* The storage layer with callers of CheckPendingTransaction.
PendingSpec == Init /\ [][NextPending]_vars

\* ------------------------------- CommitTransaction, RollbackTransaction
\* RollbackTransaction(projectKey): return CommitTransaction(projectKey).
RollbackKeeps(k) == pending
RollbackTransaction(k) == CommitTransaction(k)

\* A direct call of CommitTransaction or RollbackTransaction returns; the
\* only error they return is that of an os.Remove that failed for another
\* reason than the marker being absent.
TxReturn(p, k, name) ==
    ret' = [NoRet EXCEPT !.proc = p, !.kind = name, !.proj = k, !.res = "ok",
                         !.pre = pending[k]]

\* CommitTransaction(projectKey) called by a process that runs no composite
\* operation (a caller that drives the transaction itself).
CommitCall(p) ==
    /\ pc[p] = "idle"
    /\ \E k \in active :
         /\ pending' = CommitTransaction(k)
         /\ TxReturn(p, k, "commit")
    /\ UNCHANGED <<active, dir, lockFile, pendingTmp, files, pc, op, elapsed,
                   err, rd, pre, crashAt, expect, createOk>>

\* RollbackTransaction(projectKey) called the same way.
RollbackCall(p) ==
    /\ pc[p] = "idle"
    /\ \E k \in active :
         /\ pending' = RollbackTransaction(k)
         /\ TxReturn(p, k, "rollback")
    /\ UNCHANGED <<active, dir, lockFile, pendingTmp, files, pc, op, elapsed,
                   err, rd, pre, crashAt, expect, createOk>>

NextTx == Next \/ \E p \in Procs : CommitCall(p) \/ RollbackCall(p)

\* The storage layer with direct callers of CommitTransaction and
\* RollbackTransaction.
TxSpec == Init /\ [][NextTx]_vars

\* --------------------------------------------------------- path resolver
\* A string is a sequence of characters; a run of ordinary characters (no
\* separator, no dot) counts as one character.
Sep == "/"
Dot == "."
Alphabet == {Sep, Dot, "T"}

\* The strings of at most n characters.
RECURSIVE Strings(_)
Strings(n) ==
    IF n = 0 THEN {<<>>}
    ELSE LET shorter == Strings(n - 1) IN
         shorter \cup {Append(t, c) : t \in shorter, c \in Alphabet}

\* The project keys and record identifiers the resolver is called with.
Identifiers == Strings(MaxIdLen) \ {<<>>}

\* The elements of a path: the pieces between its separators.
RECURSIVE Elements(_)
Elements(t) ==
    IF t = <<>> THEN << <<>> >>
    ELSE LET rest == Elements(Tail(t)) IN
         IF Head(t) = Sep THEN << <<>> >> \o rest
         ELSE << <<Head(t)>> \o Head(rest) >> \o Tail(rest)

\* The elements joined by separators.
RECURSIVE JoinElements(_)
JoinElements(es) ==
    IF es = <<>> THEN <<>>
    ELSE IF Len(es) = 1 THEN es[1]
    ELSE es[1] \o <<Sep>> \o JoinElements(Tail(es))

\* filepath.Clean, element by element: empty and "." elements are dropped,
\* ".." removes the element before it, or is dropped at the root, or stays.
RECURSIVE CleanElements(_, _, _)
CleanElements(es, rooted, stack) ==
    IF es = <<>> THEN stack
    ELSE LET e == Head(es)
             n == Len(stack)
         IN  CleanElements(Tail(es), rooted,
               IF e = <<>> \/ e = <<Dot>> THEN stack
               ELSE IF e = <<Dot, Dot>>
                 THEN IF n > 0 /\ stack[n] # <<Dot, Dot>>
                        THEN SubSeq(stack, 1, n - 1)
                        ELSE IF rooted THEN stack ELSE Append(stack, e)
                 ELSE Append(stack, e))

\* filepath.IsAbs
IsAbs(t) == t # <<>> /\ t[1] = Sep

\* filepath.Clean
Clean(t) ==
    LET body == JoinElements(CleanElements(Elements(t), IsAbs(t), <<>>))
    IN  IF IsAbs(t) THEN <<Sep>> \o body
        ELSE IF body = <<>> THEN <<Dot>> ELSE body

\* filepath.Join(a, b)
Join(a, b) == Clean(a \o <<Sep>> \o b)

\* The number of leading elements two paths share.
RECURSIVE CommonPrefix(_, _)
CommonPrefix(a, b) ==
    IF a = <<>> \/ b = <<>> THEN 0
    ELSE IF Head(a) # Head(b) THEN 0
    ELSE 1 + CommonPrefix(Tail(a), Tail(b))

\* filepath.Rel(base, target) of two absolute paths: ".." for every element
\* of base below the common prefix, then the rest of target.
Rel(base, target) ==
    LET b == Elements(Clean(base))
        t == Elements(Clean(target))
        c == CommonPrefix(b, t)
        r == JoinElements([i \in 1..(Len(b) - c) |-> <<Dot, Dot>>]
                          \o SubSeq(t, c + 1, Len(t)))
    IN  IF r = <<>> THEN <<Dot>> ELSE r

\* strings.HasPrefix(t, "..")
HasPrefixDotDot(t) == Len(t) >= 2 /\ t[1] = Dot /\ t[2] = Dot

\* userConfigDir()/buyruk
ConfigDir == <<Sep, "buyruk">>

\* ProjectDir(projectKey): the key is cleaned and joined; no key is refused.
ProjectDir(key) ==
    [res |-> "ok", path |-> Join(Join(ConfigDir, <<"projects">>), Clean(key))]

IssuesDir(key) == Join(ProjectDir(key).path, <<"issues">>)
EpicsDir(key) == Join(ProjectDir(key).path, <<"epics">>)

\* The body IssuePath and EpicPath share, on their collection directory.
PathIn(collection, id) ==
    LET cleanID == Clean(id)
        fullPath == Join(collection, cleanID \o <<Dot, "json">>)
    IN  IF cleanID # id \/ IsAbs(cleanID)
          THEN [res |-> "invalid", path |-> <<>>]
          ELSE IF HasPrefixDotDot(Rel(collection, fullPath))
            THEN [res |-> "invalid", path |-> <<>>]
            ELSE [res |-> "ok", path |-> fullPath]

IssuePath(key, id) == PathIn(IssuesDir(key), id)
EpicPath(key, id) == PathIn(EpicsDir(key), id)

\* The project key of the calls that resolve a record identifier.
PlainKey == <<"T">>

\* What a call of the resolver with the given input hands back.
PathReturn(p, name, input, r) ==
    [NoRet EXCEPT !.proc = p, !.kind = name, !.res = r.res, !.arg = input,
                  !.data = r.path]

IssuePathCall(p) ==
    /\ pc[p] = "idle"
    /\ \E id \in Identifiers :
         ret' = PathReturn(p, "issuepath", id, IssuePath(PlainKey, id))
    /\ UNCHANGED <<active, dir, lockFile, pending, pendingTmp, files, pc, op,
                   elapsed, err, rd, pre, crashAt, expect, createOk>>

EpicPathCall(p) ==
    /\ pc[p] = "idle"
    /\ \E id \in Identifiers :
         ret' = PathReturn(p, "epicpath", id, EpicPath(PlainKey, id))
    /\ UNCHANGED <<active, dir, lockFile, pending, pendingTmp, files, pc, op,
                   elapsed, err, rd, pre, crashAt, expect, createOk>>

ProjectDirCall(p) ==
    /\ pc[p] = "idle"
    /\ \E key \in Identifiers :
         ret' = PathReturn(p, "projectdir", key, ProjectDir(key))
    /\ UNCHANGED <<active, dir, lockFile, pending, pendingTmp, files, pc, op,
                   elapsed, err, rd, pre, crashAt, expect, createOk>>

NextPath ==
    \E p \in Procs : IssuePathCall(p) \/ EpicPathCall(p) \/ ProjectDirCall(p)

\* Callers of the path resolver.
PathSpec == Init /\ [][NextPath]_vars

\* ProjectIndexPath(projectKey)
ProjectIndexPath(key) ==
    [res |-> "ok", path |-> Join(ProjectDir(key).path, <<"project", Dot, "json">>)]

\* The index of the last element of parts that is "projects", 0 when there
\* is none.
LastProjects(parts) ==
    LET at == {i \in 1..Len(parts) : parts[i] = <<"projects">>} IN
      IF at = {} THEN 0 ELSE CHOOSE i \in at : \A j \in at : j <= i

\* extractProjectKeyFromPath(path): the element after the innermost
\* "projects" element of the cleaned path, which must not be the first
\* element nor the last.
extractProjectKeyFromPath(path) ==
    LET parts == Elements(Clean(path))
        projectsIndex == LastProjects(parts)
    IN  IF projectsIndex <= 1 \/ projectsIndex + 1 > Len(parts)
          THEN [res |-> "invalid", key |-> <<>>]
          ELSE [res |-> "ok", key |-> parts[projectsIndex + 1]]

\* The project keys handed to the resolver: the identifiers, and the key
\* that is spelled like the directory of the projects.
ProjectKeys == Identifiers \cup {<<"projects">>}

\* The record identifiers of the commands that write: at most MaxRecordLen
\* characters.
RecordIds == {id \in Identifiers : Len(id) <= MaxRecordLen}

\* A command on the project with the given key starts.
ExtractStart(p) ==
    /\ pc[p] = "idle"
    /\ \E key \in ProjectKeys :
         op' = [op EXCEPT ![p] = [kind |-> "resolve", proj |-> "PA", val |-> 0,
                                  key |-> key, path |-> <<>>]]
    /\ pc' = [pc EXCEPT ![p] = "resolve"]
    /\ ret' = NoRet
    /\ UNCHANGED <<active, dir, lockFile, pending, pendingTmp, files, elapsed,
                   err, rd, pre, crashAt, expect, createOk>>

\* The command resolves the path it will write: the index path, or the
\* path of an issue or of an epic; a refused identifier ends the command.
ExtractResolve(p) ==
    /\ pc[p] = "resolve"
    /\ \E r \in {ProjectIndexPath(op[p].key)}
              \cup {IssuePath(op[p].key, id) : id \in RecordIds}
              \cup {EpicPath(op[p].key, id) : id \in RecordIds} :
         IF r.res = "ok"
           THEN /\ op' = [op EXCEPT ![p].path = r.path]
                /\ pc' = [pc EXCEPT ![p] = "extract"]
                /\ ret' = NoRet
           ELSE /\ ret' = [NoRet EXCEPT !.proc = p, !.kind = "resolve",
                                        !.res = r.res, !.arg = op[p].key]
                /\ op' = [op EXCEPT ![p] = NoOp]
                /\ pc' = [pc EXCEPT ![p] = "idle"]
    /\ UNCHANGED <<active, dir, lockFile, pending, pendingTmp, files, elapsed,
                   err, rd, pre, crashAt, expect, createOk>>

\* WriteJSONAtomic(path): extractProjectKeyFromPath names the project whose
\* lock and marker the write uses.
ExtractWrite(p) ==
    /\ pc[p] = "extract"
    /\ LET e == extractProjectKeyFromPath(op[p].path) IN
         ret' = [NoRet EXCEPT !.proc = p, !.kind = "extract", !.res = e.res,
                              !.arg = op[p].key, !.data = <<op[p].path, e.key>>]
    /\ op' = [op EXCEPT ![p] = NoOp]
    /\ pc' = [pc EXCEPT ![p] = "idle"]
    /\ UNCHANGED <<active, dir, lockFile, pending, pendingTmp, files, elapsed,
                   err, rd, pre, crashAt, expect, createOk>>

\* One process runs the commands that resolve a path and write to it.
NextExtract ==
    \/ ExtractStart(1)
    \/ ExtractResolve(1)
    \/ ExtractWrite(1)

\* Composite writes on the paths the resolver returns.
ExtractSpec == Init /\ [][NextExtract]_vars

\* ---------------------------------------------- deleteProject, importProject
\* os.RemoveAll(projectDir): the directory and every file in it are gone; the
\* history of the records of k starts anew.
RemoveAll(k) ==
    /\ dir' = [dir EXCEPT ![k] = FALSE]
    /\ lockFile' = [lockFile EXCEPT ![k] = Absent]
    /\ pending' = [pending EXCEPT ![k] = Absent]
    /\ pendingTmp' = [pendingTmp EXCEPT ![k] = Absent]
    /\ files' = [files EXCEPT ![k] = [n \in FileNames |-> Absent]]
    /\ expect' = [expect EXCEPT ![k] = 0]
    /\ createOk' = [createOk EXCEPT ![k] = 0]

\* The entry deleteProject records in the marker.
DeleteTx(k) == [operation |-> "delete_project", file |-> k]

\* deleteProject was given the flag -y.
Forced(p) == op[p].yes

\* The positions of deleteProject after its AcquireLock.
DeletePcs == {"dconfirm", "dbegin", "dbeginwrite", "dbeginrename", "dremove",
              "dcommit", "dcleanup"}

\* The process is in a deleteProject whose AcquireLock succeeded and whose
\* deferred cleanup has not run.
DeleteHolding(p, k) ==
    /\ Proj(p) = k
    /\ op[p].kind = "delete"
    /\ At(p) \in DeletePcs
    /\ op[p].locked

\* The process is between the successful return of an AcquireLock on k and
\* the call of the release function it was given.
HoldsLock(p, k) == Holding(p, k) \/ DeleteHolding(p, k)

\* deleteProject returns e.
DeleteReturn(p, e) ==
    /\ ret' = [NoRet EXCEPT !.proc = p, !.kind = "delete", !.proj = Proj(p),
                            !.res = e]
    /\ pc' = [pc EXCEPT ![p] = "idle"]
    /\ op' = [op EXCEPT ![p] = NoOp]
    /\ elapsed' = [elapsed EXCEPT ![p] = 0]
    /\ err' = [err EXCEPT ![p] = "ok"]

\* deleteProject goes on to l; locked tells whether it has the lock.
DeleteGoto(p, l, locked) ==
    /\ pc' = [pc EXCEPT ![p] = l]
    /\ op' = [op EXCEPT ![p].locked = locked]
    /\ elapsed' = [elapsed EXCEPT ![p] = 0]
    /\ ret' = NoRet
    /\ UNCHANGED err

\* AcquireLock returned the error e to deleteProject: with -y the deletion
\* proceeds without the lock, else the error is returned.
LockFailed(p, e) ==
    IF Forced(p) THEN DeleteGoto(p, "dconfirm", FALSE) ELSE DeleteReturn(p, e)

\* deleteProject(projectKey): os.Stat(projectDir).
DeleteStart(p) ==
    /\ pc[p] = "idle"
    /\ \E k \in active, yes \in BOOLEAN :
         IF dir[k]
           THEN /\ op' = [op EXCEPT ![p] = [kind |-> "delete", proj |-> k,
                                           val |-> 0, yes |-> yes,
                                           locked |-> FALSE]]
                /\ pc' = [pc EXCEPT ![p] = "dpending"]
                /\ ret' = NoRet
           ELSE /\ ret' = [NoRet EXCEPT !.proc = p, !.kind = "delete",
                                       !.proj = k, !.res = "notexist"]
                /\ UNCHANGED <<pc, op>>
    /\ UNCHANGED <<active, dir, lockFile, pending, pendingTmp, files, elapsed,
                   err, rd, pre, crashAt, expect, createOk>>

\* deleteProject: CheckPendingTransaction; a pending transaction stops a
\* deletion that is not forced.
DeletePending(p) ==
    /\ pc[p] = "dpending"
    /\ LET r == CheckPendingTransaction(Proj(p)).res IN
         IF r = "decodeerr" THEN DeleteReturn(p, "pendingerr")
         ELSE IF r = "pending" /\ ~Forced(p) THEN DeleteReturn(p, "pending")
         ELSE DeleteGoto(p, "dacquire", FALSE)
    /\ UNCHANGED <<active, dir, lockFile, pending, pendingTmp, files, rd, pre,
                   crashAt, expect, createOk>>

\* deleteProject: AcquireLock creates the lock file.
DeleteLockCreate(p) ==
    /\ pc[p] = "dacquire"
    /\ OpenExclSucceeds(Proj(p))
    /\ lockFile' = [lockFile EXCEPT ![Proj(p)] = File(<<>>)]
    /\ DeleteGoto(p, "dlockwrite", FALSE)
    /\ UNCHANGED <<active, dir, pending, pendingTmp, files, rd, pre, crashAt,
                   expect, createOk>>

\* deleteProject: AcquireLock fails because the directory is gone.
DeleteLockError(p) ==
    /\ pc[p] = "dacquire"
    /\ ~dir[Proj(p)]
    /\ LockFailed(p, "lockerr")
    /\ UNCHANGED <<active, dir, lockFile, pending, pendingTmp, files, rd, pre,
                   crashAt, expect, createOk>>

\* deleteProject: AcquireLock finds the lock file and sleeps.
DeleteLockRetry(p) ==
    /\ pc[p] = "dacquire"
    /\ OpenIsExist(Proj(p))
    /\ ~DeadlinePassed(elapsed[p])
    /\ elapsed' = [elapsed EXCEPT ![p] = @ + CheckInterval]
    /\ ret' = NoRet
    /\ UNCHANGED <<active, dir, lockFile, pending, pendingTmp, files, pc, op,
                   err, rd, pre, crashAt, expect, createOk>>

\* deleteProject: AcquireLock times out.
DeleteLockTimedOut(p) ==
    /\ pc[p] = "dacquire"
    /\ OpenIsExist(Proj(p))
    /\ DeadlinePassed(elapsed[p])
    /\ LockFailed(p, "timeout")
    /\ UNCHANGED <<active, dir, lockFile, pending, pendingTmp, files, rd, pre,
                   crashAt, expect, createOk>>

\* deleteProject: AcquireLock writes the pid and returns the cleanup, or
\* fails to write, removes the lock file and returns the error.
DeleteLockWritePid(p) ==
    /\ pc[p] = "dlockwrite"
    /\ \/ /\ lockFile' = WritePid(Proj(p), p)
          /\ DeleteGoto(p, "dconfirm", TRUE)
       \/ /\ lockFile' = [lockFile EXCEPT ![Proj(p)] = Absent]
          /\ LockFailed(p, "lockerr")
    /\ UNCHANGED <<active, dir, pending, pendingTmp, files, rd, pre, crashAt,
                   expect, createOk>>

\* deleteProject: the confirmation prompt, skipped with -y; any answer but
\* yes cancels the deletion.
DeleteConfirm(p) ==
    /\ pc[p] = "dconfirm"
    /\ \/ /\ pc' = [pc EXCEPT ![p] = "dbegin"]
          /\ UNCHANGED err
       \/ /\ ~Forced(p)
          /\ pc' = [pc EXCEPT ![p] = "dcleanup"]
          /\ err' = [err EXCEPT ![p] = "cancelled"]
    /\ ret' = NoRet
    /\ UNCHANGED <<active, dir, lockFile, pending, pendingTmp, files, op,
                   elapsed, rd, pre, crashAt, expect, createOk>>

\* deleteProject: BeginTransaction, os.MkdirAll(projectDir).
DeleteBegin(p) ==
    /\ pc[p] = "dbegin"
    /\ dir' = [dir EXCEPT ![Proj(p)] = TRUE]
    /\ pc' = [pc EXCEPT ![p] = "dbeginwrite"]
    /\ ret' = NoRet
    /\ UNCHANGED <<active, lockFile, pending, pendingTmp, files, op, elapsed,
                   err, rd, pre, crashAt, expect, createOk>>

\* deleteProject: BeginTransaction, os.WriteFile(tmpPath); it fails when the
\* directory is gone again, or having written a part of the entry.
DeleteBeginWrite(p) ==
    /\ pc[p] = "dbeginwrite"
    /\ \/ /\ dir[Proj(p)]
          /\ pendingTmp' = [pendingTmp EXCEPT ![Proj(p)] =
                               File(MarshalTx(DeleteTx(Proj(p))))]
          /\ pc' = [pc EXCEPT ![p] = "dbeginrename"]
          /\ UNCHANGED err
       \/ /\ IF dir[Proj(p)]
               THEN \E b \in Prefixes(MarshalTx(DeleteTx(Proj(p)))) :
                      pendingTmp' = [pendingTmp EXCEPT ![Proj(p)] = File(b)]
               ELSE UNCHANGED pendingTmp
          /\ pc' = [pc EXCEPT ![p] = "dcleanup"]
          /\ err' = [err EXCEPT ![p] = "beginerr"]
    /\ ret' = NoRet
    /\ UNCHANGED <<active, dir, lockFile, pending, files, op, elapsed, rd, pre,
                   crashAt, expect, createOk>>

\* deleteProject: BeginTransaction, os.Rename(tmpPath, transactionPath); it
\* fails when the temporary file is gone.
DeleteBeginRename(p) ==
    /\ pc[p] = "dbeginrename"
    /\ \/ /\ pendingTmp[Proj(p)].exists
          /\ pending' = [pending EXCEPT ![Proj(p)] = pendingTmp[Proj(p)]]
          /\ pendingTmp' = [pendingTmp EXCEPT ![Proj(p)] = Absent]
          /\ pc' = [pc EXCEPT ![p] = "dremove"]
          /\ UNCHANGED err
       \/ /\ pc' = [pc EXCEPT ![p] = "dcleanup"]
          /\ err' = [err EXCEPT ![p] = "beginerr"]
          /\ UNCHANGED <<pending, pendingTmp>>
    /\ ret' = NoRet
    /\ UNCHANGED <<active, dir, lockFile, files, op, elapsed, rd, pre, crashAt,
                   expect, createOk>>

\* deleteProject: os.RemoveAll(projectDir).
DeleteRemove(p) ==
    /\ pc[p] = "dremove"
    /\ RemoveAll(Proj(p))
    /\ pc' = [pc EXCEPT ![p] = "dcommit"]
    /\ ret' = NoRet
    /\ UNCHANGED <<active, op, elapsed, err, rd, pre, crashAt>>

\* deleteProject: CommitTransaction, then success = true.
DeleteCommit(p) ==
    /\ pc[p] = "dcommit"
    /\ pending' = CommitTransaction(Proj(p))
    /\ pc' = [pc EXCEPT ![p] = "dcleanup"]
    /\ ret' = NoRet
    /\ UNCHANGED <<active, dir, lockFile, pendingTmp, files, op, elapsed, err,
                   rd, pre, crashAt, expect, createOk>>

\* deleteProject returns: the cleanup deferred when AcquireLock succeeded
\* removes the lock file.
DeleteCleanup(p) ==
    /\ pc[p] = "dcleanup"
    /\ lockFile' = IF op[p].locked THEN ReleaseLock(Proj(p)) ELSE lockFile
    /\ DeleteReturn(p, err[p])
    /\ UNCHANGED <<active, dir, pending, pendingTmp, files, rd, pre, crashAt,
                   expect, createOk>>

\* importProject: os.Stat(projectDir); an existing project is replaced only
\* with --overwrite.
ImportStart(p) ==
    /\ pc[p] = "idle"
    /\ \E k \in active, overwrite \in BOOLEAN :
         IF dir[k] /\ ~overwrite
           THEN /\ ret' = [NoRet EXCEPT !.proc = p, !.kind = "import",
                                       !.proj = k, !.res = "exists"]
                /\ UNCHANGED <<pc, op>>
           ELSE /\ op' = [op EXCEPT ![p] = [kind |-> "import", proj |-> k,
                                           val |-> 0]]
                /\ pc' = [pc EXCEPT ![p] = IF dir[k] THEN "iremove"
                                           ELSE "imkdir"]
                /\ ret' = NoRet
    /\ UNCHANGED <<active, dir, lockFile, pending, pendingTmp, files, elapsed,
                   err, rd, pre, crashAt, expect, createOk>>

\* importProject: os.RemoveAll(projectDir) of the existing project; no lock
\* is taken.
ImportRemove(p) ==
    /\ pc[p] = "iremove"
    /\ RemoveAll(Proj(p))
    /\ pc' = [pc EXCEPT ![p] = "imkdir"]
    /\ ret' = NoRet
    /\ UNCHANGED <<active, op, elapsed, err, rd, pre, crashAt>>

\* importProject: os.MkdirAll(projectDir), then WriteJSONAtomic of the
\* project index, which starts with AcquireLock.
ImportMkdir(p) ==
    /\ pc[p] = "imkdir"
    /\ dir' = [dir EXCEPT ![Proj(p)] = TRUE]
    /\ op' = [op EXCEPT ![p] = [NoOp EXCEPT !.proj = Proj(p)]]
    /\ pc' = [pc EXCEPT ![p] = "acquire"]
    /\ UNCHANGED <<active, lockFile, pending, pendingTmp, files, elapsed, err,
                   rd, pre>>
    /\ UnchangedHistory

\* The holder of the lock calls the release function AcquireLock gave it.
\* In the specification of the removals a composite operation is its
\* AcquireLock and this release; what it writes in between plays no part.
HolderRelease(p) ==
    /\ pc[p] = "begin"
    /\ lockFile' = ReleaseLock(Proj(p))
    /\ Return(p, "ok")
    /\ UNCHANGED <<active, dir, pending, pendingTmp, files, crashAt, expect,
                   createOk>>

NextDelete ==
    \E p \in Procs :
        \/ Start(p)
        \/ LockCreate(p)
        \/ LockCreateError(p)
        \/ LockRetry(p)
        \/ LockTimedOut(p)
        \/ LockWritePid(p)
        \/ HolderRelease(p)
        \/ MkdirAll(p)
        \/ Crash(p)
        \/ DeleteStart(p)
        \/ DeletePending(p)
        \/ DeleteLockCreate(p)
        \/ DeleteLockError(p)
        \/ DeleteLockRetry(p)
        \/ DeleteLockTimedOut(p)
        \/ DeleteLockWritePid(p)
        \/ DeleteConfirm(p)
        \/ DeleteBegin(p)
        \/ DeleteBeginWrite(p)
        \/ DeleteBeginRename(p)
        \/ DeleteRemove(p)
        \/ DeleteCommit(p)
        \/ DeleteCleanup(p)
        \/ ImportStart(p)
        \/ ImportRemove(p)
        \/ ImportMkdir(p)

\* The removals of a project directory and the holders of its lock.
DeleteSpec == Init /\ [][NextDelete]_vars

\* ------------------------------------------------------ startup warning
\* Whether a command of the given kind, started on project k, tells the user
\* of a pending transaction before it does its work: repairProject prints a
\* warning, deleteProject an error or (with -y) a warning; importProject and
\* the commands that go straight to a composite write look at no marker.
StartupWarning(kind, k) ==
    CASE kind = "repair" -> pending[k].exists
      [] kind = "delete" -> CheckPendingTransaction(k).res # "none"
      [] OTHER -> FALSE

\* -------------------------------------------------------- two projects
\* Two projects are in use.  Process 1 takes, holds and releases the lock of
\* either project; process 2 runs the composite operations on project PB.
LockUser == 1
Writer == 2

InitTwo == InitFor({"PA", "PB"})

\* The writer starts an operation on PB, the lock user on either project.
StartTwo(p) == Start(p) /\ (p = Writer => op'[p].proj = "PB")

NextTwo ==
    \E p \in Procs :
        \/ StartTwo(p)
        \/ LockCreate(p)
        \/ LockCreateError(p)
        \/ LockRetry(p)
        \/ LockTimedOut(p)
        \/ LockWritePid(p)
        \/ p = LockUser /\ HolderRelease(p)
        \/ p = Writer /\ BeginOpen(p)
        \/ p = Writer /\ BeginWrite(p)
        \/ p = Writer /\ BeginRename(p)
        \/ p = Writer /\ CreateCheck(p)
        \/ p = Writer /\ UpdateRead(p)
        \/ p = Writer /\ UpdateMutate(p)
        \/ p = Writer /\ MarshalStep(p)
        \/ p = Writer /\ WriteOpen(p)
        \/ p = Writer /\ WriteData(p)
        \/ p = Writer /\ WriteRename(p)
        \/ p = Writer /\ Commit(p)
        \/ p = Writer /\ Rollback(p)
        \/ p = Writer /\ Release(p)
        \/ MkdirAll(p)
        \/ Crash(p)

\* The storage layer with two projects in use.
TwoSpec == InitTwo /\ [][NextTwo]_vars

\* ------------------------------------------------------ corrupted records
\* The bytes a test writes into a record file to corrupt it.
InvalidJSON == <<"invalid json">>

\* os.WriteFile(path, []byte("invalid json"), 0644) on the record of an
\* existing project directory, outside the storage layer.
WriteCorrupted(p) ==
    /\ pc[p] = "idle"
    /\ \E k \in active :
         /\ dir[k]
         /\ files' = [files EXCEPT ![k][RecordPath] = File(InvalidJSON)]
    /\ ret' = NoRet
    /\ UNCHANGED <<active, dir, lockFile, pending, pendingTmp, pc, op, elapsed,
                   err, rd, pre, crashAt, expect, createOk>>

\* The error ReadJSON returns, as the chain errors.Is walks: fmt.Errorf with
\* %w keeps the cause behind the message.
ReadJSONErrorBare(res) ==
    CASE res = "notfound" -> <<"storage: file not found">>
      [] res = "decodeerr" -> <<"storage: failed to unmarshal JSON">>
      [] OTHER -> <<>>
ReadJSONError(res) ==
    CASE res = "notfound" -> <<"storage: file not found", "ErrNotExist">>
      [] res = "decodeerr" -> <<"storage: failed to unmarshal JSON",
                                "SyntaxError">>
      [] OTHER -> <<>>

\* errors.Is(err, target)
ErrorsIs(chain, target) == \E i \in 1..Len(chain) : chain[i] = target

NextRead == Next \/ \E p \in Procs : WriteCorrupted(p)

\* The storage layer with record files that may be corrupted from outside.
ReadSpec == Init /\ [][NextRead]_vars

\* ---------------------------------------------------------- project index
\* The issues handed to the index: an ID and the fields an entry copies.
IssueIds == 1..MaxIssues
Titles == {"t1", "t2"}
Statuses == {"TODO", "DOING"}
Issues == [id : IssueIds, title : Titles, status : Statuses]

\* The IndexEntry AddIssue builds from an issue.
IndexEntry(issue) ==
    [id |-> issue.id, title |-> issue.title, status |-> issue.status]

\* removeIndexEntry(entries, id): the entries whose ID is not id, in order.
RECURSIVE removeIndexEntry(_, _)
removeIndexEntry(entries, id) ==
    IF entries = <<>> THEN <<>>
    ELSE IF Head(entries).id # id
           THEN <<Head(entries)>> \o removeIndexEntry(Tail(entries), id)
           ELSE removeIndexEntry(Tail(entries), id)

\* idx.RemoveIssue(issueID)
RemoveIssue(idx, id) == removeIndexEntry(idx, id)

\* idx.AddIssue(issue): remove the existing entry, append the new one.
AddIssueAppend(idx, issue) == Append(idx, IndexEntry(issue))
AddIssue(idx, issue) == Append(RemoveIssue(idx, issue.id), IndexEntry(issue))

\* The index the calls below work on is carried in ret.data; it starts
\* empty.  ret.arg holds the argument of the last call and ret.val the
\* number of entries before it.
AddIssueCall(p) ==
    /\ pc[p] = "idle"
    /\ \E issue \in Issues :
         ret' = [NoRet EXCEPT !.proc = p, !.kind = "addissue",
                              !.val = Len(ret.data),
                              !.arg = <<issue>>,
                              !.data = AddIssue(ret.data, issue)]
    /\ UNCHANGED <<active, dir, lockFile, pending, pendingTmp, files, pc, op,
                   elapsed, err, rd, pre, crashAt, expect, createOk>>

RemoveIssueCall(p) ==
    /\ pc[p] = "idle"
    /\ \E id \in IssueIds :
         ret' = [NoRet EXCEPT !.proc = p, !.kind = "removeissue",
                              !.val = Len(ret.data),
                              !.arg = <<id>>,
                              !.data = RemoveIssue(ret.data, id)]
    /\ UNCHANGED <<active, dir, lockFile, pending, pendingTmp, files, pc, op,
                   elapsed, err, rd, pre, crashAt, expect, createOk>>

NextIndex == \E p \in Procs : AddIssueCall(p) \/ RemoveIssueCall(p)

\* Sequences of AddIssue and RemoveIssue calls on one ProjectIndex.
IndexSpec == Init /\ [][NextIndex]_vars

\* deleteProject without the flag -y.
DeleteStartUnforced(p) ==
    /\ DeleteStart(p)
    /\ op'[p].kind = "delete" => ~op'[p].yes

\* importProject of a project that does not exist, where --overwrite removes
\* nothing.
ImportStartNew(p) ==
    /\ ImportStart(p)
    /\ pc'[p] # "iremove"

NextUnforced ==
    \E p \in Procs :
        \/ Start(p)
        \/ LockCreate(p)
        \/ LockCreateError(p)
        \/ LockRetry(p)
        \/ LockTimedOut(p)
        \/ LockWritePid(p)
        \/ HolderRelease(p)
        \/ MkdirAll(p)
        \/ Crash(p)
        \/ DeleteStartUnforced(p)
        \/ DeletePending(p)
        \/ DeleteLockCreate(p)
        \/ DeleteLockError(p)
        \/ DeleteLockRetry(p)
        \/ DeleteLockTimedOut(p)
        \/ DeleteLockWritePid(p)
        \/ DeleteConfirm(p)
        \/ DeleteBegin(p)
        \/ DeleteBeginWrite(p)
        \/ DeleteBeginRename(p)
        \/ DeleteRemove(p)
        \/ DeleteCommit(p)
        \/ DeleteCleanup(p)
        \/ ImportStartNew(p)
        \/ ImportMkdir(p)

\* The holders of the lock and the removals of a project directory when no
\* command is given -y or removes an existing project with --overwrite.
UnforcedSpec == Init /\ [][NextUnforced]_vars

\* ----------------------------------------------- createIssue, repairProject
\* The commands that keep the issue files and the project index.  An issue ID
\* is given by its sequence number n (the ID is K-n); the index is the record
\* file of the project.  A composite storage operation is taken as one step
\* here: by the mutual exclusion of the lock no step of another process falls
\* inside it, and a lock file that exists between two steps is the one a
\* crashed process left, which fails every AcquireLock with the timeout.

\* IssuePath(projectKey, issueID) within the project directory.
IssueFile(n) == "issues/" \o ToString(n) \o ".json"

\* json.MarshalIndent of an issue.
MarshalIssue(issue) == <<"{", issue, "}">>

\* json.Unmarshal into an Issue succeeds on b.
IsIssueJSON(b) == Len(b) = 3

\* The issue json.Unmarshal decodes from b.
UnmarshalIssue(b) == b[2]

\* issue.Validate(): the title is required.
ValidIssue(issue) == issue.title # ""

\* json.MarshalIndent of a ProjectIndex with the given entries.
MarshalIndex(idx) == <<"{">> \o idx \o <<"}">>

\* The entries json.Unmarshal decodes from the index file.
UnmarshalIndex(b) == SubSeq(b, 2, Len(b) - 1)

\* ReadJSON(indexPath, &index): an absent file is the not-found error.
ReadIndex(k) ==
    LET f == files[k][RecordPath] IN
      IF f.exists THEN [res |-> "ok", idx |-> UnmarshalIndex(f.bytes)]
      ELSE [res |-> "notfound", idx |-> <<>>]

\* The highest sequence number among the entries.
RECURSIVE MaxSeq(_)
MaxSeq(idx) ==
    IF idx = <<>> THEN 0
    ELSE LET m == MaxSeq(Tail(idx)) IN
         IF Head(idx).id > m THEN Head(idx).id ELSE m

\* os.IsNotExist(err): looks at err itself, not at the errors it wraps.
OsIsNotExist(chain) == chain # <<>> /\ Head(chain) = "ErrNotExist"

\* getNextIssueSequence(projectKey): read without any lock.
getNextIssueSequence(k) ==
    LET r == ReadIndex(k) IN
      IF r.res = "ok" THEN [res |-> "ok", seq |-> MaxSeq(r.idx) + 1]
      ELSE IF OsIsNotExist(ReadJSONError(r.res)) THEN [res |-> "ok", seq |-> 1]
      ELSE [res |-> "seqerr", seq |-> 0]

\* The existence check of WriteJSONAtomicCreate on the issue file.
IssueNeverExists(k, n) == FALSE
IssueExists(k, n) == files[k][IssueFile(n)].exists

\* The mutate callback of createIssue: idx.AddIssue(issue).
IndexKept(idx, issue) == idx
IndexWithIssue(idx, issue) == AddIssue(idx, issue)

InitIssues ==
    /\ active = {"PA"}
    /\ dir = [k \in Projects |-> k = "PA"]
    /\ lockFile = [k \in Projects |-> Absent]
    /\ pending = [k \in Projects |-> Absent]
    /\ pendingTmp = [k \in Projects |-> Absent]
    /\ files = [k \in Projects |->
                  [n \in FileNames \cup {IssueFile(i) : i \in IssueIds} |->
                      IF k = "PA" /\ n = RecordPath
                        THEN File(MarshalIndex(<<>>)) ELSE Absent]]
    /\ pc = [p \in Procs |-> "idle"]
    /\ op = [p \in Procs |-> NoOp]
    /\ elapsed = [p \in Procs |-> 0]
    /\ err = [p \in Procs |-> "ok"]
    /\ rd = [p \in Procs |-> 0]
    /\ pre = [p \in Procs |-> Absent]
    /\ crashAt = [p \in Procs |-> "none"]
    /\ expect = [k \in Projects |-> 0]
    /\ createOk = [k \in Projects |-> 0]
    /\ ret = NoRet

\* The command of p returns e; ret.arg holds the ID of a createIssue.
CommandReturn(p, e) ==
    /\ ret' = [NoRet EXCEPT !.proc = p, !.kind = op[p].kind, !.proj = Proj(p),
                            !.res = e,
                            !.arg = IF op[p].kind = "createissue"
                                      THEN <<op[p].issue.id>> ELSE <<>>]
    /\ pc' = [pc EXCEPT ![p] = "idle"]
    /\ op' = [op EXCEPT ![p] = NoOp]
    /\ UNCHANGED crashAt

\* The process dies inside a composite storage operation: the lock file
\* stays, and so may the marker.
CrashInside(p) ==
    /\ lockFile' = [lockFile EXCEPT ![Proj(p)] = File(<<ToString(p)>>)]
    /\ \E m \in {pending[Proj(p)], File(MarshalTx(TxOf("update")))} :
         pending' = [pending EXCEPT ![Proj(p)] = m]
    /\ crashAt' = [crashAt EXCEPT ![p] = pc[p]]
    /\ pc' = [pc EXCEPT ![p] = "crashed"]
    /\ ret' = NoRet
    /\ UNCHANGED op

\* A composite storage operation of the command of p that would leave the
\* files of the project as f: its AcquireLock finds a lock file and times
\* out, or it completes and the command goes on to l (returns success when
\* l is "idle"), or one of its steps fails, or the process dies inside it
\* before or after the rename.
StorageStep(p, f, l) ==
    LET k == Proj(p) IN
      IF lockFile[k].exists
        THEN /\ CommandReturn(p, "timeout")
             /\ UNCHANGED <<files, lockFile, pending>>
        ELSE \/ /\ files' = [files EXCEPT ![k] = f]
                /\ IF l = "idle"
                     THEN CommandReturn(p, "ok")
                     ELSE /\ pc' = [pc EXCEPT ![p] = l]
                          /\ ret' = NoRet
                          /\ UNCHANGED <<op, crashAt>>
                /\ UNCHANGED <<lockFile, pending>>
             \/ /\ CommandReturn(p, "writeerr")
                /\ UNCHANGED <<files, lockFile, pending>>
             \/ /\ CrashInside(p)
                /\ \E g \in {files[k], f} : files' = [files EXCEPT ![k] = g]

\* createIssue: os.Stat(projectDir), then the ID: the one given with --id
\* (explicit > 0) or the next sequence number, read from the index.
CreateIssueStart(p) ==
    /\ pc[p] = "idle"
    /\ \E k \in active, title \in Titles, explicit \in IssueIds \cup {0} :
         LET next == getNextIssueSequence(k)
             n == IF explicit = 0 THEN next.seq ELSE explicit
         IN
           /\ dir[k]
           /\ IF explicit = 0 /\ next.res # "ok"
                THEN /\ ret' = [NoRet EXCEPT !.proc = p, !.kind = "createissue",
                                             !.proj = k, !.res = next.res]
                     /\ UNCHANGED <<pc, op>>
                ELSE /\ n \in IssueIds
                     /\ op' = [op EXCEPT ![p] =
                                  [kind |-> "createissue", proj |-> k,
                                   val |-> 0,
                                   issue |-> [id |-> n, title |-> title,
                                              status |-> "TODO"]]]
                     /\ pc' = [pc EXCEPT ![p] = "cwrite"]
                     /\ ret' = NoRet
    /\ UNCHANGED <<active, dir, lockFile, pending, pendingTmp, files, elapsed,
                   err, rd, pre, crashAt, expect, createOk>>

\* createIssue: WriteJSONAtomicCreate(issuePath, issue).
CreateIssueWrite(p) ==
    /\ pc[p] = "cwrite"
    /\ LET k == Proj(p)
           n == op[p].issue.id
       IN  IF ~lockFile[k].exists /\ IssueExists(k, n)
             THEN /\ CommandReturn(p, "exists")
                  /\ UNCHANGED <<files, lockFile, pending>>
             ELSE StorageStep(p, [files[k] EXCEPT ![IssueFile(n)] =
                                     File(MarshalIssue(op[p].issue))],
                              "cindex")
    /\ UNCHANGED <<active, dir, pendingTmp, elapsed, err, rd, pre, expect,
                   createOk>>

\* createIssue: UpdateJSONAtomic(indexPath, &index, AddIssue).
CreateIssueIndex(p) ==
    /\ pc[p] = "cindex"
    /\ LET k == Proj(p) IN
         StorageStep(p, [files[k] EXCEPT ![RecordPath] =
                            File(MarshalIndex(
                                IndexWithIssue(ReadIndex(k).idx, op[p].issue)))],
                     "idle")
    /\ UNCHANGED <<active, dir, pendingTmp, elapsed, err, rd, pre, expect,
                   createOk>>

NextIssue ==
    \E p \in Procs :
        \/ CreateIssueStart(p)
        \/ CreateIssueWrite(p)
        \/ CreateIssueIndex(p)
        \/ Crash(p)

\* createIssue commands on one project.
IssueSpec == InitIssues /\ [][NextIssue]_vars

\* The entries repairProject collects from the issue files n, n+1, ...: a
\* file that does not decode or does not validate is skipped.
RECURSIVE ScanIssues(_, _)
ScanIssues(k, n) ==
    IF n > MaxIssues THEN <<>>
    ELSE LET f == files[k][IssueFile(n)] IN
         IF f.exists /\ IsIssueJSON(f.bytes)
               /\ ValidIssue(UnmarshalIssue(f.bytes))
           THEN <<IndexEntry(UnmarshalIssue(f.bytes))>> \o ScanIssues(k, n + 1)
           ELSE ScanIssues(k, n + 1)

\* repairProject: os.Stat(projectDir), then the issue files are read, before
\* any lock is taken.
RepairStart(p) ==
    /\ pc[p] = "idle"
    /\ \E k \in active :
         /\ dir[k]
         /\ op' = [op EXCEPT ![p] = [kind |-> "repair", proj |-> k, val |-> 0,
                                     entries |-> ScanIssues(k, 1)]]
    /\ pc' = [pc EXCEPT ![p] = "rupdate"]
    /\ ret' = NoRet
    /\ UNCHANGED <<active, dir, lockFile, pending, pendingTmp, files, elapsed,
                   err, rd, pre, crashAt, expect, createOk>>

\* repairProject: UpdateJSONAtomic(indexPath, &index, ...) sets idx.Issues to
\* the entries collected.
RepairUpdate(p) ==
    /\ pc[p] = "rupdate"
    /\ LET k == Proj(p) IN
         StorageStep(p, [files[k] EXCEPT ![RecordPath] =
                            File(MarshalIndex(op[p].entries))],
                     "idle")
    /\ UNCHANGED <<active, dir, pendingTmp, elapsed, err, rd, pre, expect,
                   createOk>>

\* An issue file is overwritten from outside with bytes that do not decode,
\* or with an issue that has no title.
CorruptIssue(p) ==
    /\ pc[p] = "idle"
    /\ \E k \in active, n \in IssueIds :
        \E b \in {InvalidJSON,
                 MarshalIssue([id |-> n, title |-> "", status |-> "TODO"])} :
         /\ dir[k]
         /\ files' = [files EXCEPT ![k][IssueFile(n)] = File(b)]
    /\ ret' = NoRet
    /\ UNCHANGED <<active, dir, lockFile, pending, pendingTmp, pc, op, elapsed,
                   err, rd, pre, crashAt, expect, createOk>>

NextRepair ==
    \/ NextIssue
    \/ \E p \in Procs : RepairStart(p) \/ RepairUpdate(p) \/ CorruptIssue(p)

\* createIssue and repairProject commands on one project whose issue files
\* may be corrupted from outside.
RepairSpec == InitIssues /\ [][NextRepair]_vars

\* ================================================================ claims
\* The composite operations.
Composite == {"none", "write", "create", "update"}

\* No process is between the creation of the lock file of k and the return of
\* its operation (a process that crashed there stays there).
Quiescent(k) ==
    \A p \in Procs : Proj(p) = k => At(p) \notin (HeldPcs \cup {"lockwrite"})

\* The counter the record of k holds; an absent record is the zero value.
StoredValue(k) ==
    IF files[k][RecordPath].exists THEN Unmarshal(files[k][RecordPath].bytes)
    ELSE 0

C2_NoLostUpdates ==
    \A k \in Projects :
        Quiescent(k) =>
            /\ files[k][RecordPath].exists => IsJSON(files[k][RecordPath].bytes)
            /\ StoredValue(k) = expect[k]

\* An update that found 1 returns success having stored 2, while the other
\* process waits for the lock.
C2_Witness ==
    /\ ret.kind = "update" /\ ret.res = "ok"
    /\ ret.pre = File(Marshal(1))
    /\ StoredValue("PA") = 2
    /\ \E q \in Procs : pc[q] = "acquire" /\ elapsed[q] > 0

C4_WriteAtomicAllOrNothing ==
    \A p \in Procs :
        /\ At(p) = "commit" =>
              files[Proj(p)][RecordPath] = File(Marshal(op[p].val))
        /\ At(p) \in BeforeRenamePcs => files[Proj(p)][RecordPath] = pre[p]

\* A writer crashed after it had opened the temporary file and before the
\* rename, on a record that existed.
C4_Witness ==
    \E p \in Procs :
        /\ pc[p] = "crashed" /\ crashAt[p] \in {"wdata", "rename"}
        /\ pre[p].exists
        /\ files[Proj(p)][TmpPath(RecordPath)].exists

\* C5: a ReadJSON never finds a torn record: the record file is absent or
\* holds one complete value, a read never fails to decode, and a read made
\* while a writer is between opening its temporary file and the rename
\* returns the content from before that write.
C5_NoTornRead ==
    /\ \A k \in Projects :
          files[k][RecordPath].exists => IsJSON(files[k][RecordPath].bytes)
    /\ ret.kind = "read" => ret.res # "decodeerr"
    /\ (ret.kind = "read" /\ ret.during) =>
          \A q \in Procs :
              (Proj(q) = ret.proj /\ pc[q] \in {"wdata", "rename"}) =>
                  IF ret.res = "ok" THEN pre[q] = File(Marshal(ret.val))
                  ELSE ~pre[q].exists

\* A read returned a value while a writer had its temporary file open and
\* not yet completely written.
C5_Witness ==
    /\ ret.kind = "read" /\ ret.during /\ ret.res = "ok"
    /\ files[ret.proj][TmpPath(RecordPath)] = File(<<>>)

C7_MutateErrorAborts ==
    \A p \in Procs :
        /\ (pc[p] \in {"rollback", "release"} /\ err[p] = "cberr") =>
              files[Proj(p)][RecordPath] = pre[p]
        /\ (ret.proc = p /\ ret.kind = "update" /\ ret.res = "cberr") =>
              /\ files[ret.proj][RecordPath] = ret.pre
              /\ ~pending[ret.proj].exists
              /\ ~lockFile[ret.proj].exists

\* An update of an existing record returned the error of its callback.
C7_Witness ==
    /\ ret.kind = "update" /\ ret.res = "cberr"
    /\ ret.pre.exists

\* C8: WriteJSONAtomicCreate on a path that exists fails with "already
\* exists" and leaves the file as it is: a create goes on to write only when
\* it found the target absent.
C8_CreateExisting ==
    /\ \A p \in Procs :
          op[p].kind = "create" =>
              /\ At(p) \in ({"marshal", "commit"} \cup BeforeRenamePcs) =>
                    ~pre[p].exists
              /\ (At(p) \in {"rollback", "release"} /\ pre[p].exists) =>
                    /\ err[p] = "exists" \/ pc[p] = "crashed"
                    /\ files[Proj(p)][RecordPath] = pre[p]
    /\ (ret.kind = "create" /\ ret.pre.exists) =>
          /\ ret.res = "exists"
          /\ files[ret.proj][RecordPath] = ret.pre

\* A create of a record that holds a value returned "already exists".
C8_Witness ==
    /\ ret.kind = "create" /\ ret.res = "exists"
    /\ ret.pre = File(Marshal(1))

AcquireBounded ==
    /\ \A p \in Procs :
          pc[p] = "acquire" =>
              /\ elapsed[p] <= LockTimeout + CheckInterval
              /\ elapsed[p] % CheckInterval = 0
    /\ ret.res = "timeout" =>
          /\ ret.waited > LockTimeout
          /\ lockFile[ret.proj].exists
          /\ lockFile[ret.proj].bytes # <<ToString(ret.proc)>>
          /\ ~Holding(ret.proc, ret.proj)
          /\ pc[ret.proc] = "idle"

\* C10: AcquireLock always terminates: a process that is in AcquireLock
\* leaves it, also when the lock file exists during its whole wait; it
\* retries every check interval, returns the timeout error once the timeout
\* has passed, and then is not the holder and has not touched the lock file.
C10_AcquireTerminates ==
    /\ []AcquireBounded
    /\ \A p \in Procs : (pc[p] = "acquire") ~> (pc[p] # "acquire")

\* An AcquireLock returned the timeout error.
C10_Witness == ret.res = "timeout" /\ ret.waited = LockTimeout + CheckInterval

\* C11: WaitForLock returns the timeout error not before the timeout has
\* elapsed, and it returns nil at once, whatever the timeout, when it is
\* called while no lock file exists.
C11_WaitForLock ==
    ret.kind = "wait" =>
        /\ ret.res = "timeout" => ret.waited >= ret.val
        /\ (ret.waited = 0 /\ ~lockFile[ret.proj].exists) => ret.res = "ok"

\* The positions of a composite operation between the return of its
\* BeginTransaction and its CommitTransaction or RollbackTransaction.
InTransactionPcs == {"check", "read", "mutate", "marshal", "wopen", "wdata",
                     "rename", "commit", "rollback"}

\* C12: crash evidence: when a process crashed after its BeginTransaction
\* and before its CommitTransaction or RollbackTransaction, a later
\* CheckPendingTransaction reports that a transaction is pending and returns
\* the operation name and the metadata the crashed process recorded.
C12_CrashEvidence ==
    \A p \in Procs :
        (/\ ret.kind = "checkpending"
         /\ pc[p] = "crashed" /\ crashAt[p] \in InTransactionPcs
         /\ Proj(p) = ret.proj) =>
            /\ ret.res = "pending"
            /\ ret.data = <<TxOf(op[p].kind).operation, TxOf(op[p].kind).file>>

HasDotDotElement(t) ==
    \E i \in 1..Len(Elements(t)) : Elements(t)[i] = <<Dot, Dot>>

\* The identifier contains a path separator.
HasSeparator(t) == \E i \in 1..Len(t) : t[i] = Sep

\* C14: IssuePath and EpicPath reject every record identifier that has a
\* parent-directory element, contains a path separator or is absolute, and
\* resolve a plain identifier to <collection directory>/<identifier>.json.
C14_PathTraversalRejected ==
    ret.kind \in {"issuepath", "epicpath"} =>
        /\ (HasDotDotElement(ret.arg) \/ HasSeparator(ret.arg)
              \/ IsAbs(ret.arg)) => ret.res = "invalid"
        /\ ret.arg = <<"T">> =>
              /\ ret.res = "ok"
              /\ ret.data = (IF ret.kind = "issuepath"
                                THEN IssuesDir(PlainKey)
                                ELSE EpicsDir(PlainKey))
                             \o <<Sep, "T", Dot, "json">>

\* C15: ProjectDir rejects a project key whose cleaned form differs from
\* the key as given, or that is an absolute path: it returns an
\* invalid-identifier error and no path.
C15_ProjectKeyRejected ==
    (ret.kind = "projectdir" /\ (Clean(ret.arg) # ret.arg \/ IsAbs(ret.arg)))
        => ret.res = "invalid"

\* C16: project removal happens only under the lock: a step that removes the
\* directory tree of a project is made by a process that holds the lock of
\* that project.
C16_RemovalUnderLock ==
    [][\A k \in Projects :
          (dir[k] /\ ~dir'[k]) =>
              \E p \in Procs : pc'[p] # pc[p] /\ HoldsLock(p, k)]_vars

\* Process p takes the step.
Moved(p) == <<pc[p], op[p], elapsed[p]>>' # <<pc[p], op[p], elapsed[p]>>

\* Process q has created the lock file of the project in op[p] and has not
\* released it.
Blocks(q, p) ==
    /\ q # p
    /\ op[q].proj = op[p].proj
    /\ At(q) \in (HeldPcs \cup {"lockwrite"})

\* C17: operations on different project keys never contend: an AcquireLock
\* (of a composite operation or alone) is delayed or timed out only while a
\* process working on the same project has that project's lock file, however
\* long the lock of another project is held; and a step changes the lock
\* file and the marker of no project but the one its process works on.
C17_NoContention ==
    [][\A p \in Procs :
          /\ (pc[p] = "acquire" /\ elapsed'[p] > elapsed[p]) =>
                \E q \in Procs : Blocks(q, p)
          /\ (pc[p] = "acquire" /\ ret'.proc = p /\ ret'.res = "timeout") =>
                \E q \in Procs : Blocks(q, p)
          /\ Moved(p) =>
                \A k \in Projects :
                    (op[p].proj # k /\ op'[p].proj # k) =>
                        /\ lockFile'[k] = lockFile[k]
                        /\ pending'[k] = pending[k]]_vars

\* A write on PB has returned success while the other process holds the
\* lock of PA.
C17_Witness ==
    /\ ret.proc = Writer /\ ret.proj = "PB"
    /\ ret.kind = "write" /\ ret.res = "ok"
    /\ Holding(LockUser, "PA")

\* Everything on disk.
Disk == <<dir, lockFile, pending, pendingTmp, files>>

\* Process p, which runs no operation, calls ReadJSON on the record of k and
\* the call returns.
ReadReturns(p, k) == ReadJSON(p) /\ ret'.proj = k

\* C18: reads bypass locking: a process that is running no operation can
\* complete a ReadJSON at once, whoever holds the project's lock and whatever
\* marker exists, and the ReadJSON leaves the lock file, the marker and every
\* other file as they were.
C18_ReadBypassesLock ==
    /\ [](\A p \in Procs : \A k \in active :
             pc[p] = "idle" => ENABLED ReadReturns(p, k))
    /\ [][ret'.kind = "read" => Disk' = Disk]_vars

\* A ReadJSON has returned the record while another process holds the lock of
\* the project and its marker exists.
C18_Witness ==
    /\ ret.kind = "read" /\ ret.res = "ok"
    /\ pending[ret.proj].exists
    /\ \E q \in Procs \ {ret.proc} : Holding(q, ret.proj)

\* C19: a ReadJSON of an absent file fails with a not-found error that
\* matches os.ErrNotExist, a ReadJSON of a file whose content does not
\* decode fails with a decode error, and a failed ReadJSON changes nothing on
\* disk.
C19_ReadErrors ==
    [][ret'.kind = "read" =>
          LET f == files[ret'.proj][RecordPath] IN
            /\ ~f.exists =>
                  /\ ret'.res = "notfound"
                  /\ ErrorsIs(ReadJSONError(ret'.res), "ErrNotExist")
            /\ (f.exists /\ ~IsJSON(f.bytes)) => ret'.res = "decodeerr"
            /\ ret'.res # "ok" => Disk' = Disk]_vars

\* A ReadJSON has failed to decode a record file.
C19_Witness == ret.kind = "read" /\ ret.res = "decodeerr"

\* The value UpdateJSONAtomic hands to mutate when the record file is f: the
\* stored value, or the caller's zero value when the file is absent.
Passed(f) == IF f.exists THEN Unmarshal(f.bytes) ELSE 0

\* C20: UpdateJSONAtomic passes mutate the caller's zero value when the file
\* is absent and the stored value when it exists, and when it returns
\* success the file holds the value mutate made of it (here the passed
\* value plus one), created if it was absent.
C20_UpdateValue ==
    /\ \A p \in Procs :
          pc[p] = "mutate" => rd[p] = Passed(files[Proj(p)][RecordPath])
    /\ (ret.kind = "update" /\ ret.res = "ok") =>
          /\ ret.val = Passed(ret.pre) + 1
          /\ files[ret.proj][RecordPath] = File(Marshal(ret.val))

\* An UpdateJSONAtomic has succeeded on a file that held a value other than
\* the zero value.
C20_Witness ==
    /\ ret.kind = "update" /\ ret.res = "ok"
    /\ ret.pre.exists /\ Passed(ret.pre) > 0


\* C21: when WriteAtomic has failed, at the write of the temporary file or at
\* the rename, the temporary file does not remain on disk and the target
\* holds what it held before the call.
C21_FailedWriteCleansUp ==
    \A p \in Procs :
        (pc[p] = "rollback" /\ err[p] \in {"writeerr", "renameerr"}) =>
            /\ ~files[Proj(p)][TmpPath(RecordPath)].exists
            /\ files[Proj(p)][RecordPath] = pre[p]


\* Process p starts a command.
CommandStarts(p) == pc[p] = "idle" /\ pc'[p] \notin {"idle", "crashed"}

\* A process crashed inside a transaction on k and its marker is still there.
CrashedMarker(k) ==
    /\ pending[k].exists
    /\ \E q \in Procs : pc[q] = "crashed" /\ Proj(q) = k

\* C22: integrity check on startup: a command that starts on a project whose
\* marker exists, left by a crashed operation, flags the potential crash
\* before it does its work.
C22_StartupFlagsCrash ==
    [][\A p \in Procs :
          (CommandStarts(p) /\ CrashedMarker(op'[p].proj)) =>
              StartupWarning(op'[p].kind, op'[p].proj)]_vars


\* C23: protocol order of a composite write: the target is replaced only by
\* the rename of a process that holds the project's lock, with the lock file
\* on disk and the marker of its own operation present; the marker is
\* written only under the lock; and whenever the lock file is removed the
\* marker is already gone.
C23_ProtocolOrder ==
    [][\A k \in Projects :
          /\ files'[k][RecordPath] # files[k][RecordPath] =>
                \E p \in Procs :
                    /\ pc[p] = "rename" /\ pc'[p] = "commit"
                    /\ Holding(p, k)
                    /\ lockFile[k].exists
                    /\ pending[k] = File(MarshalTx(TxOf(op[p].kind)))
          /\ (~pending[k].exists /\ pending'[k].exists) =>
                \E p \in Procs :
                    /\ pc[p] = "beginrename"
                    /\ Holding(p, k)
                    /\ lockFile[k].exists
          /\ (lockFile[k].exists /\ ~lockFile'[k].exists) =>
                ~pending[k].exists]_vars

\* A process has renamed a new value onto an existing record and has not yet
\* removed its marker or released the lock.
C23_Witness ==
    \E p \in Procs :
        /\ pc[p] = "commit"
        /\ pre[p].exists
        /\ files[Proj(p)][RecordPath] # pre[p]
        /\ pending[Proj(p)].exists
        /\ lockFile[Proj(p)].exists


\* No process has crashed.
NoCrash == \A p \in Procs : pc[p] # "crashed"

C25_MarkerComplete ==
    /\ \A k \in Projects :
          pending[k].exists =>
              /\ IsTxJSON(pending[k].bytes)
              /\ CheckPendingTransaction(k).res = "pending"
    /\ ret.kind = "checkpending" => ret.res # "decodeerr"

\* CheckPendingTransaction has returned after a process crashed inside
\* BeginTransaction, leaving its temporary marker file behind.
C25_Witness ==
    /\ ret.kind = "checkpending"
    /\ \E p \in Procs :
          /\ pc[p] = "crashed"
          /\ crashAt[p] \in {"beginwrite", "beginrename"}
          /\ Proj(p) = ret.proj
          /\ pendingTmp[ret.proj].exists


\* C26: temporary files are absent in steady state: when no operation is in
\* flight and no process has crashed, neither the record nor the marker has
\* a ".tmp" sibling, whether the operations before succeeded or failed.
C26_NoTmpInSteadyState ==
    (NoCrash /\ \A p \in Procs : pc[p] = "idle") =>
        \A k \in Projects :
            /\ ~files[k][TmpPath(RecordPath)].exists
            /\ ~pendingTmp[k].exists


\* C27: bounded waiting: a poll of a waiting AcquireLock that finds the lock
\* file gone, the holder having released it and nobody having taken it since,
\* creates the lock file, however long the call has waited, and from there
\* AcquireLock returns success unless the write of the pid fails; a call
\* returns the timeout error only past its own window, with the lock file
\* still there, and then it is over: the process is idle again and has
\* touched nothing.
C27_BoundedWaiting ==
    [][\A p \in Procs :
          /\ (pc[p] = "acquire" /\ Moved(p) /\ pc'[p] # "crashed") =>
                /\ OpenExclSucceeds(Proj(p)) =>
                      /\ pc'[p] = "lockwrite"
                      /\ lockFile'[Proj(p)].exists
                /\ (ret'.proc = p /\ ret'.res = "timeout") =>
                      /\ elapsed[p] > LockTimeout
                      /\ lockFile[Proj(p)].exists
                      /\ pc'[p] = "idle"
                      /\ elapsed'[p] = 0
                      /\ lockFile' = lockFile
          /\ (pc[p] = "lockwrite" /\ Moved(p) /\ pc'[p] # "crashed") =>
                \/ pc'[p] = "begin" /\ lockFile'[Proj(p)].exists
                \/ ret'.proc = p /\ ret'.res = "lockerr"]_vars

\* A process has waited for the lock, within its window, and the holder has
\* just returned and released it.
C27_Witness ==
    \E p \in Procs :
        /\ pc[p] = "acquire"
        /\ elapsed[p] > 0 /\ elapsed[p] <= LockTimeout
        /\ OpenExclSucceeds(Proj(p))
        /\ ret.proc \notin {0, p} /\ ret.proj = Proj(p) /\ ret.res = "ok"


\* C28: a composite write on a project whose directory does not exist yet
\* does not fail for the missing directory: it goes on to BeginTransaction,
\* which creates the directory, and the record is written.
C28_CreatesProjectDir ==
    [][\A p \in Procs :
          (pc[p] = "acquire" /\ ~dir[Proj(p)] /\ Moved(p)
                /\ pc'[p] # "crashed") =>
              /\ ret'.proc # p
              /\ pc'[p] \in {"acquire", "lockwrite"}]_vars


\* The lock file of k is the one a process wrote its pid into before it
\* crashed while holding the lock.
StaleLock(k) ==
    \E q \in Procs :
        /\ pc[q] = "crashed"
        /\ HoldsLock(q, k)
        /\ lockFile[k] = File(<<ToString(q)>>)

\* C29: no automatic stale-lock recovery: while the lock file of a holder
\* that crashed is on disk, every AcquireLock and every composite write on
\* the project that returns, returns the lock timeout, and the lock file is
\* changed or removed by nothing but a forced deletion.
C29_NoStaleLockRecovery ==
    [][\A k \in Projects :
          StaleLock(k) =>
              /\ lockFile'[k] # lockFile[k] =>
                    \E p \in Procs :
                        Moved(p) /\ op[p].kind = "delete" /\ Forced(p)
              /\ (ret'.kind \in Composite /\ ret'.proc # 0 /\ ret'.proj = k) =>
                    ret'.res = "timeout"]_vars


\* The entries of idx with the given ID.
EntriesOf(idx, id) == SelectSeq(idx, LAMBDA e : e.id = id)

\* The entries of idx with another ID, in order.
OthersOf(idx, id) == SelectSeq(idx, LAMBDA e : e.id # id)

\* C30: index entries are unique per issue ID: after any sequence of AddIssue
\* and RemoveIssue calls on an index that started without duplicates the
\* index holds at most one entry per ID; AddIssue leaves exactly one entry
\* for its ID, holding the new field values, and the other entries as they
\* were; RemoveIssue of an ID that is not present leaves the index unchanged.
C30_IndexUnique ==
    /\ [](\A id \in IssueIds : Len(EntriesOf(ret.data, id)) <= 1)
    /\ [][/\ ret'.kind = "addissue" =>
                LET issue == ret'.arg[1] IN
                  /\ EntriesOf(ret'.data, issue.id) = <<IndexEntry(issue)>>
                  /\ OthersOf(ret'.data, issue.id) = OthersOf(ret.data, issue.id)
          /\ ret'.kind = "removeissue" =>
                LET id == ret'.arg[1] IN
                  /\ EntriesOf(ret'.data, id) = <<>>
                  /\ EntriesOf(ret.data, id) = <<>> => ret'.data = ret.data]_vars

\* An AddIssue of an ID already present has replaced its entry: the full
\* index has as many entries as before the call.
C30_Witness ==
    /\ ret.kind = "addissue"
    /\ ret.val = Len(ret.data)
    /\ Len(ret.data) = MaxIssues

\* The IDs of the entries of the project index of k.
IndexIds(k) ==
    LET idx == ReadIndex(k).idx IN {idx[i].id : i \in 1..Len(idx)}

\* The IDs of the issue files of k that decode and validate.
ValidFiles(k) ==
    {n \in IssueIds :
        LET f == files[k][IssueFile(n)] IN
          f.exists /\ IsIssueJSON(f.bytes) /\ ValidIssue(UnmarshalIssue(f.bytes))}

\* C31: when repairProject returns success the entries of the project index
\* are exactly the valid issue files that are in the issues directory at
\* that moment, one entry for each.
C31_RepairMatchesFiles ==
    (ret.kind = "repair" /\ ret.res = "ok") =>
        /\ IndexIds(ret.proj) = ValidFiles(ret.proj)
        /\ Len(ReadIndex(ret.proj).idx) = Cardinality(ValidFiles(ret.proj))


\* A step of p inside AcquireLock that does not take the lock: the call, a
\* retry, the return of the timeout or of an open error.
WaitingStep(p) ==
    /\ Moved(p)
    /\ pc[p] \in {"idle", "acquire"}
    /\ pc'[p] \in {"idle", "acquire"}

\* C32: a composite write that fails because AcquireLock timed out has no
\* effect: none of its steps, from the call to the return of the timeout,
\* changes the target file, the transaction marker or the lock file, and at
\* the return the lock file of the other process is still there.
C32_TimeoutNoEffect ==
    /\ [][\A p \in Procs : WaitingStep(p) => UNCHANGED Disk]_vars
    /\ [](ret.res = "timeout" =>
            /\ lockFile[ret.proj].exists
            /\ lockFile[ret.proj].bytes # <<ToString(ret.proc)>>)

\* A composite write timed out on a project that has a record file and a
\* transaction marker.
C32_Witness ==
    /\ ret.res = "timeout"
    /\ ret.waited >= LockTimeout
    /\ pending[ret.proj].exists
    /\ files[ret.proj][RecordPath].exists


\* The step is p running the release function its AcquireLock returned, and
\* it deletes a lock file.
ReleaseRemoves(p) ==
    /\ \/ pc[p] = "begin"
       \/ pc[p] = "dcleanup" /\ op[p].locked
    /\ pc'[p] = "idle"
    /\ lockFile[Proj(p)].exists
    /\ ~lockFile'[Proj(p)].exists

\* C33: without a forced override, the lock file a process deletes when it
\* runs the release function of its AcquireLock is the one it created (it
\* holds the pid of the process), also in the deferred release of
\* deleteProject after the project directory was removed.
C33_ReleaseOwnLock ==
    [][\A p \in Procs :
          ReleaseRemoves(p) => lockFile[Proj(p)].bytes = <<ToString(p)>>]_vars


\* C34: for every project key and every path the resolver returns for it,
\* extractProjectKeyFromPath returns that key, so the lock and the marker
\* of a composite write on the path are those of the project.
C34_LockMatchesPath ==
    ret.kind = "extract" => ret.res = "ok" /\ ret.data[2] = ret.arg


\* The processes whose createIssue has written its issue file and has not
\* returned.
Created(k, n) ==
    {p \in Procs : pc[p] = "cindex" /\ Proj(p) = k /\ op[p].issue.id = n}

\* C35: creation never reuses or overwrites an issue ID: no step changes an
\* issue file that exists, the step in which a createIssue writes its file
\* finds the file absent, and so no two commands that got past the write, or
\* returned success, have the same ID.
C35_IdsNotReused ==
    /\ [][\A k \in Projects, n \in IssueIds :
            /\ IssueExists(k, n) =>
                  files'[k][IssueFile(n)] = files[k][IssueFile(n)]
            /\ \A p \in Procs :
                  (p \in Created(k, n)' /\ p \notin Created(k, n)) =>
                      /\ ~IssueExists(k, n)
                      /\ files'[k][IssueFile(n)] =
                            File(MarshalIssue(op'[p].issue))]_vars
    /\ [](\A k \in Projects, n \in IssueIds :
            /\ Cardinality(Created(k, n)) <= 1
            /\ (ret.kind = "createissue" /\ ret.res = "ok" /\ ret.proj = k
                   /\ ret.arg = <<n>>) => Created(k, n) = {})

\* A createIssue is refused with "already exists" because a concurrent one,
\* which has not returned yet, wrote the file of the same ID first.
C35_Witness ==
    /\ ret.kind = "createissue"
    /\ ret.res = "exists"
    /\ Created(ret.proj, ret.arg[1]) # {}


\* C36: createIssue writes the issue file before it adds the index entry:
\* in every state reachable by createIssue commands, crashes included,
\* every ID listed in the project index has an issue file, and when a
\* createIssue returns success the index has an entry for its issue.
C36_FileBeforeEntry ==
    /\ \A k \in Projects : \A n \in IndexIds(k) : IssueExists(k, n)
    /\ (ret.kind = "createissue" /\ ret.res = "ok") =>
          ret.arg[1] \in IndexIds(ret.proj)

\* A createIssue returns success while the issue file of a command that
\* died between its two critical sections has no index entry.
C36_Witness ==
    /\ ret.kind = "createissue"
    /\ ret.res = "ok"
    /\ \E q \in Procs :
         /\ pc[q] = "crashed"
         /\ crashAt[q] = "cindex"
         /\ IssueExists(Proj(q), op[q].issue.id)
         /\ op[q].issue.id \notin IndexIds(Proj(q))

====
